---------------------------- MODULE Spec2Model ----------------------------
(***************************************************************************)
(* Model of the wcag-crawler scan pipeline: the runScan driver, the        *)
(* CrawlerService breadth-first crawl, the ScannerService batched scan,    *)
(* the DeduplicationService layers and the ReportService summary.          *)
(*                                                                         *)
(* URLs are already-normalized atoms (naturals); the root is URL 0.        *)
(* Record ids (nanoid) are modelled as positions in the tables / a fresh   *)
(* counter.                                                                *)
(***************************************************************************)
EXTENDS Integers, Sequences, FiniteSets, TLC

(***************************************************************************)
(* Bounds of the model                                                     *)
(***************************************************************************)
NumUrls == 6            \* same-origin URLs of the site: 0 .. NumUrls-1
MaxPagesCfg == 4        \* largest config.maxPages that is tried
MaxDepthCfg == 2        \* largest config.maxDepth that is tried
MaxConcurrency == 2     \* largest config.concurrency that is tried
MaxCancels == 1         \* cancel requests per run
MaxPagesPipe == 2       \* largest config.maxPages tried in the full pipeline
MaxPagesDedup == 3      \* pages of a persisted scan handed to analyze()
MaxPagesWide == 10      \* pages of a persisted scan with header digests only
MaxPagesDup == 5        \* pages of a persisted scan with duplicate pages
MaxPagesTitled == 7     \* pages of a persisted scan that differ in title
MaxPagesRequests == 1   \* largest config.maxPages tried with two scan requests
MaxSlashes == 2         \* most trailing slashes on the path of a link
MaxRuns == 2            \* analyze() invocations on one persisted scan

RootUrl == 0
SiteUrls == 0 .. (NumUrls - 1)
ExtUrl == NumUrls       \* a link to another origin
SkipUrl == NumUrls + 1  \* a same-origin link to a binary file / excluded pattern
Urls == SiteUrls \cup {ExtUrl, SkipUrl}

(***************************************************************************)
(* URL strings.  A URL string is a number that spells, digit by digit, the *)
(* path it names (one of Urls), the trailing slashes after the path, the   *)
(* fragment, the query string and the case of the host name.  ParseUrl is  *)
(* `new URL(s)`, FormatUrl is `url.toString()`.                            *)
(***************************************************************************)
Stride == NumUrls + 2           \* number of paths
SlashForms == MaxSlashes + 1    \* 0 .. MaxSlashes trailing slashes
\* the query strings of the model: none, "a=1&b=2", "b=2&a=1"
QueryForms == <<"none", "sorted", "unsorted">>
QueryCode(q) == CHOOSE k \in 1 .. Len(QueryForms) : QueryForms[k] = q

\* url.toString() of a parsed URL
FormatUrl(r) ==
  r.path + Stride * (r.slashes + SlashForms *
     ((IF r.frag THEN 1 ELSE 0) + 2 * (QueryCode(r.query) - 1)))
\* the URL string with the given parts; upper: the host is written "Example.com"
Href(path, slashes, frag, query, upper) ==
  FormatUrl([path |-> path, slashes |-> slashes, frag |-> frag, query |-> query])
    + (IF upper THEN Stride * SlashForms * 2 * Len(QueryForms) ELSE 0)
\* a string that `new URL` rejects
BadHref == Stride * SlashForms * 2 * Len(QueryForms) * 2
Hrefs == 0 .. BadHref
\* new URL(s): the parts of the string; the parser lower-cases the host name
ParseUrl(h) ==
  [path |-> h % Stride,
   slashes |-> (h \div Stride) % SlashForms,
   frag |-> ((h \div (Stride * SlashForms)) % 2) = 1,
   query |-> QueryForms[((h \div (Stride * SlashForms * 2)) % Len(QueryForms)) + 1]]

\* url.utils.ts normalizeUrl: fragment removed, query parameters sorted, one
\* trailing slash removed, host lower-cased; an unparsable string is returned
normalizeUrl(h) ==
  IF h = BadHref THEN h
  ELSE LET url == ParseUrl(h)
       IN FormatUrl([path |-> url.path,
                     slashes |-> IF url.slashes > 0 THEN url.slashes - 1 ELSE 0,
                     frag |-> FALSE,
                     query |-> IF url.query = "unsorted" THEN "sorted" ELSE url.query])
\* url.utils.ts resolveUrl of an absolute href: new URL(href).toString(), or null
resolveUrl(h) == IF h = BadHref THEN BadHref ELSE FormatUrl(ParseUrl(h))

\* url.utils.ts isSameOrigin(url, rootOrigin)
isSameOrigin(u) == u # BadHref /\ ParseUrl(u).path # ExtUrl
\* url.utils.ts shouldSkipUrl
shouldSkipUrl(u) == u # BadHref /\ ParseUrl(u).path = SkipUrl

(***************************************************************************)
(* Site graphs: the links page.evaluate() returns on each page.            *)
(***************************************************************************)
\* root -> 1,2,3 ; 1 -> 4 ; 4 -> 5 ; 5 -> root and an external link
TreeSite ==
  [u \in Urls |->
     CASE u = 0 -> {1, 2, 3} \cap SiteUrls
       [] u = 1 -> {4} \cap SiteUrls
       [] u = 4 -> {5} \cap SiteUrls
       [] u = 5 -> {0, ExtUrl}
       [] OTHER -> {}]
\* u -> u+1, the last page links back to the root
ChainSite ==
  [u \in Urls |->
     IF u \in SiteUrls
       THEN (IF u + 1 \in SiteUrls THEN {u + 1} ELSE {RootUrl})
       ELSE {}]
\* the root links to every URL, every page links back to the root
StarSite ==
  [u \in Urls |->
     IF u = RootUrl THEN Urls
     ELSE IF u \in SiteUrls THEN {RootUrl, u} ELSE {}]
\* a three-page site: root -> 1,2 ; 1 -> 2 and a binary file
SmallSite ==
  [u \in Urls |->
     CASE u = 0 -> {1, 2}
       [] u = 1 -> {2, SkipUrl}
       [] OTHER -> {}]

\* the root links to page 1 in several spellings ("/1", "/1/", "/1#top",
\* "Example.com/1") and to page 2 with its query parameters in both orders
SpellingSite ==
  [u \in Urls |->
     CASE u = 0 -> {Href(1, 0, FALSE, "none", FALSE), Href(1, 1, FALSE, "none", FALSE),
                    Href(1, 0, TRUE, "none", FALSE), Href(1, 0, FALSE, "none", TRUE),
                    Href(2, 0, FALSE, "sorted", FALSE),
                    Href(2, 0, FALSE, "unsorted", FALSE)}
       [] u = 1 -> {Href(0, 0, TRUE, "none", TRUE), Href(2, 0, TRUE, "sorted", FALSE)}
       [] OTHER -> {}]
\* the root links to "/1" and to "/1//"
SlashSite ==
  [u \in Urls |->
     CASE u = 0 -> {Href(1, 0, FALSE, "none", FALSE),
                    Href(1, MaxSlashes, FALSE, "none", FALSE)}
       [] OTHER -> {}]

\* the root links to "/1" and "/2"; the server redirects "/2" to "/1"
\* (/faq -> /faq.action); "/1" links to "/3"
RedirectSite ==
  [u \in Urls |->
     CASE u = 0 -> {1, 2}
       [] u = 1 -> {3} \cap SiteUrls
       [] OTHER -> {}]

CrawlSites ==
  {TreeSite, ChainSite, StarSite, SmallSite, SpellingSite, SlashSite, RedirectSite}

\* page.url() after page.goto(u): where the navigation ends after redirects
FinalUrl(s, u) ==
  IF s = RedirectSite /\ u # BadHref /\ ParseUrl(u).path = 2
    THEN FormatUrl([ParseUrl(u) EXCEPT !.path = 1])
    ELSE u

\* the anchors of the page served for a URL: those of the page at the path
\* the navigation ends at
LinksOf(s, u) == s[ParseUrl(FinalUrl(s, u)).path]

\* page.title() of each URL
TitleOf(u) == IF ParseUrl(u).path = RootUrl THEN "Home" ELSE "Page"

(***************************************************************************)
(* Helpers                                                                 *)
(***************************************************************************)
Min(a, b) == IF a < b THEN a ELSE b

\* the elements of a finite set of integers in ascending order
SetToSeq(S) ==
  CHOOSE r \in {[i \in 1 .. Cardinality(T) |->
                   CHOOSE x \in T : Cardinality({y \in T : y < x}) = i - 1] :
                 T \in {S}} : TRUE

Range(s) == {s[i] : i \in 1 .. Len(s)}

(***************************************************************************)
(* Fingerprints, selectors and evaluator findings                          *)
(***************************************************************************)
\* scanner.service.ts regionSelectors: the six fingerprinted regions
Regions == {"header", "nav", "footer", "aside", "main", "body"}
NoFp == "none"          \* region absent from the page's fingerprint map
NoGroup == 0            \* issues.shared_component_group IS NULL

\* regions_fingerprint = {} (or null): no region has a digest
EmptyFp == [r \in Regions |-> NoFp]

\* a fingerprint map with the given header, main and body digests
FpMap(h, m, b) ==
  [r \in Regions |->
     CASE r = "header" -> h
       [] r = "main" -> m
       [] r = "body" -> b
       [] OTHER -> NoFp]

\* Target selectors: the text and the landmark keywords the text contains
SelHeaderImg == [text |-> "header > img", has |-> {"header"}]
SelSearch == [text |-> "#search-button", has |-> {}]

\* fingerprint.ts detectRegionFromSelector: first matching keyword wins
detectRegionFromSelector(sel) ==
  CASE "header" \in sel.has -> "header"
    [] "nav" \in sel.has -> "nav"
    [] "footer" \in sel.has -> "footer"
    [] "aside" \in sel.has -> "aside"
    [] "main" \in sel.has -> "main"
    [] OTHER -> "unknown"

\* One violation node reported by the evaluator: rule id and target selector
VioAlt == [rule |-> "image-alt", sel |-> SelHeaderImg]
VioBtn == [rule |-> "button-name", sel |-> SelSearch]

(***************************************************************************)
(* Region subtrees and their fingerprints.  An element is its tag, its     *)
(* attributes other than class (name and value), its class tokens as       *)
(* written, its text and its child elements; the same record stands for    *)
(* the element and for its outerHTML.                                      *)
(***************************************************************************)
\* extractRegionFingerprints: the attributes removeAttribute() is called for
DomVolatileAttrs == {"id", "style", "value", "action", "href", "src", "data-x"}
\* normalizeHtmlStructure: volatileAttrs
volatileAttrs == {"id", "style", "nonce", "csrf", "value", "data-x"}
\* the class tokens of the model in the order of Array.prototype.sort
ClassTokens == <<"x", "y">>

WithoutAttrs(attrs, names) == {a \in attrs : a.name \notin names}

\* the element cleaned as clone.querySelectorAll('*').forEach cleans it
DomClean(el) ==
  [el EXCEPT !.attrs = WithoutAttrs(@, DomVolatileAttrs), !.text = ""]
\* extractRegionFingerprints: clone.outerHTML of the region element. Text
\* nodes are removed in the whole clone; the attributes are removed from
\* the elements querySelectorAll('*') returns: the descendants of the clone
RegionOuterHtml(root) ==
  [root EXCEPT !.text = "",
               !.kids = [k \in 1 .. Len(root.kids) |-> DomClean(root.kids[k])]]

\* normalizeHtmlStructure on one tag: volatile attributes removed, class
\* tokens sorted, text removed
NormalizeTag(el) ==
  [el EXCEPT !.attrs = WithoutAttrs(@, volatileAttrs),
             !.cls = SelectSeq(ClassTokens, LAMBDA c : \E i \in 1 .. Len(el.cls) : el.cls[i] = c),
             !.text = ""]
\* fingerprint.ts normalizeHtmlStructure: its replacements act on every tag
normalizeHtmlStructure(html) ==
  [NormalizeTag(html) EXCEPT
     !.kids = [k \in 1 .. Len(html.kids) |-> NormalizeTag(html.kids[k])]]
\* fingerprint.ts generateFingerprint: sha256 of the normalized structure;
\* the digest is written as the string it is the digest of
generateFingerprint(html) == [sha256 |-> normalizeHtmlStructure(html)]
\* extractRegionFingerprints: the fingerprint of one region element
RegionFingerprint(root) == generateFingerprint(RegionOuterHtml(root))

\* attribute lists an element of the model may carry
AttrSets ==
  {{}, {[name |-> "id", value |-> "a"]}, {[name |-> "action", value |-> "a"]},
   {[name |-> "action", value |-> "b"]}}
\* child elements: a nested form or a paragraph
ChildElements ==
  [tag : {"form", "p"}, attrs : AttrSets, cls : {<<>>}, text : {""}, kids : {<<>>}]
\* region elements: the element that [role="main"] selects, here a
\* <form role="main">, with at most one child
RegionElements ==
  [tag : {"form"}, attrs : AttrSets, cls : {<<"x", "y">>, <<"y", "x">>},
   text : {"", "t"}, kids : {<<>>} \cup {<<c>> : c \in ChildElements}]
\* no fingerprint computed yet (the variables hold a list of results)
NoFingerprint == <<>>

VARIABLES
  urlString,       \* normalizeUrl: the string handed to the first call
  urlNormalized,   \* normalizeUrl: the results of the successive calls
  subtreeA,        \* extractRegionFingerprints: a region element
  subtreeB,        \* extractRegionFingerprints: another region element
  fpA,             \* the fingerprint computed for subtreeA
  fpB,             \* the fingerprint computed for subtreeB
  pc,              \* position of runScan / crawl / scanPages / analyze
  scanStatus,      \* scans.status of the scan ("none": no record yet)
  site,            \* the site that is crawled
  cfg,             \* ScanConfig: maxPages, maxDepth, concurrency
  cancels,         \* number of cancel requests made
  crawlerBrowser,  \* CrawlerService.browser # null
  scannerBrowser,  \* ScannerService.browser # null
  visited,         \* CrawlerService.visited
  queue,           \* CrawlerService.queue
  crawlCancelled,  \* CrawlerService.isCancelled
  batch,           \* the batch of the current loop iteration (crawl or scan)
  results,         \* per batch item: the state of its page operation
  discovered,      \* discoveredUrls of crawl()
  pages,           \* table pages (position = page id)
  totalPagesCnt,   \* scans.total_pages
  scannedPagesCnt, \* scans.scanned_pages
  scanCancelled,   \* ScannerService.isCancelled
  scanList,        \* scanPages: the pending pages (page ids), ordered by url
  scanIdx,         \* scanPages: loop index i
  scannedCount,    \* scanPages: let scannedCount
  progress,        \* the scan:progress events emitted, in order
  issues,          \* table issues (position = issue id)
  groups,          \* table shared_components
  sc,              \* analyze: the in-memory sharedComponents array
  nextId,          \* next fresh shared component id (nanoid)
  runs,            \* number of analyze() invocations started
  firstRun,        \* issues and groups as the first analyze() left them
  scans,           \* table scans: the status of each scan id
  runPc,           \* the position of each scan's runScan invocation
  crawler,         \* the CrawlerService singleton: scanId, visited, queue, isCancelled
  scanner,         \* the ScannerService singleton: scanId, isCancelled
  calls,           \* the locals of each scan's crawl() and scanPages() call
  pageRows,        \* table pages, rows of all scans
  issueRows,       \* table issues, rows of all scans
  emitted,         \* the socket events emitted, by room
  cancelReqs       \* the scan ids of the cancel requests served

crawlVars == <<visited, queue, crawlCancelled, batch, results, discovered>>
scanVars == <<scanCancelled, scanList, scanIdx, scannedCount, progress>>
dedupVars == <<issues, groups, sc, nextId, runs, firstRun>>
requestVars == <<scans, runPc, crawler, scanner, calls, pageRows, issueRows,
                 emitted, cancelReqs>>
pureVars == <<urlString, urlNormalized, subtreeA, subtreeB, fpA, fpB>>
vars == <<urlString, urlNormalized, subtreeA, subtreeB, fpA, fpB, pc, scanStatus, site, cfg, cancels, crawlerBrowser, scannerBrowser,
          visited, queue, crawlCancelled, batch, results, discovered, pages,
          totalPagesCnt, scannedPagesCnt, scanCancelled, scanList, scanIdx,
          scannedCount, progress, issues, groups, sc, nextId, runs, firstRun,
          scans, runPc, crawler, scanner, calls, pageRows, issueRows, emitted,
          cancelReqs>>

(***************************************************************************)
(* Construction: the services are singletons, no scan exists               *)
(***************************************************************************)
Configs ==
  [maxPages : 1 .. MaxPagesCfg, maxDepth : 1 .. MaxDepthCfg,
   concurrency : 1 .. MaxConcurrency]

\* the scan ids of two requests
ScanIds == {"X", "Y"}

\* no request has been served by the router
InitNoRequests ==
  /\ scans = [s \in ScanIds |-> "none"]
  /\ runPc = [s \in ScanIds |-> "none"]
  /\ crawler = [scanId |-> "", visited |-> {}, queue |-> <<>>, isCancelled |-> FALSE]
  /\ scanner = [scanId |-> "", isCancelled |-> FALSE]
  /\ calls = [s \in ScanIds |->
                [batch |-> <<>>, results |-> <<>>, discoveredUrls |-> <<>>,
                 pages |-> <<>>, i |-> 0]]
  /\ pageRows = <<>>
  /\ issueRows = {}
  /\ emitted = {}
  /\ cancelReqs = <<>>

\* no call of normalizeUrl or generateFingerprint is being followed
InitPure ==
  /\ urlString = RootUrl
  /\ urlNormalized = <<>>
  /\ subtreeA = CHOOSE el \in RegionElements : TRUE
  /\ subtreeB = CHOOSE el \in RegionElements : TRUE
  /\ fpA = NoFingerprint
  /\ fpB = NoFingerprint

InitCommon ==
  /\ InitPure
  /\ InitNoRequests
  /\ pc = "none"
  /\ scanStatus = "none"
  /\ cancels = 0
  /\ crawlerBrowser = FALSE
  /\ scannerBrowser = FALSE
  /\ visited = {}
  /\ queue = <<>>
  /\ crawlCancelled = FALSE
  /\ batch = <<>>
  /\ results = <<>>
  /\ discovered = <<>>
  /\ pages = <<>>
  /\ totalPagesCnt = 0
  /\ scannedPagesCnt = 0
  /\ scanCancelled = FALSE
  /\ scanList = <<>>
  /\ scanIdx = 0
  /\ scannedCount = 0
  /\ progress = <<>>
  /\ issues = <<>>
  /\ groups = <<>>
  /\ sc = <<>>
  /\ nextId = 1
  /\ runs = 0
  /\ firstRun = [issues |-> <<>>, groups |-> <<>>]

InitCrawl ==
  /\ InitCommon
  /\ site \in CrawlSites
  /\ cfg \in Configs

(***************************************************************************)
(* POST /api/scans and runScan, phase 1                                    *)
(***************************************************************************)
\* scan.routes.ts POST /: ScanModel.create inserts the scan as 'pending'
PostScan ==
  /\ pc = "none"
  /\ scanStatus' = "pending"
  /\ pc' = "created"
  /\ UNCHANGED <<pureVars, requestVars, site, cfg, cancels, crawlerBrowser, scannerBrowser, crawlVars, pages, totalPagesCnt, scannedPagesCnt,
                 scanVars, dedupVars>>

\* runScan up to its first await: status 'crawling', crawlerService.initialize
RunScanStart ==
  /\ pc = "created"
  /\ scanStatus' = "crawling"
  /\ pc' = "crawlInit"
  /\ UNCHANGED <<pureVars, requestVars, site, cfg, cancels, crawlerBrowser, scannerBrowser, crawlVars, pages, totalPagesCnt, scannedPagesCnt,
                 scanVars, dedupVars>>

\* CrawlerService.initialize resolves (browser launched); crawl() is entered:
\* fields reset, then await browser.newContext
CrawlEnter ==
  /\ pc = "crawlInit"
  /\ crawlerBrowser' = TRUE
  /\ visited' = {}
  /\ queue' = <<>>
  /\ crawlCancelled' = FALSE
  /\ pc' = "crawlCtx"
  /\ UNCHANGED <<pureVars, requestVars, scanStatus, site, cfg, cancels, scannerBrowser, batch,
                 results, discovered, pages, totalPagesCnt, scannedPagesCnt, scanVars, dedupVars>>

\* newContext resolves: the root is queued at depth 0
CrawlContextReady ==
  /\ pc = "crawlCtx"
  /\ queue' = Append(queue, [url |-> normalizeUrl(RootUrl), depth |-> 0, hops |-> 0])
  /\ discovered' = <<>>
  /\ pc' = "crawlLoop"
  /\ UNCHANGED <<pureVars, requestVars, scanStatus, site, cfg, cancels, crawlerBrowser, scannerBrowser, visited,
                 crawlCancelled, batch, results, pages, totalPagesCnt, scannedPagesCnt, scanVars,
                 dedupVars>>

\* a while condition that does not test the queue
CrawlLoopCond_NoQueueTest(q, vis, cancelled, c) ==
  Cardinality(vis) < c.maxPages /\ ~cancelled
\* the while condition of crawl()
CrawlLoopCond(q, vis, cancelled, c) ==
  Len(q) > 0 /\ Cardinality(vis) < c.maxPages /\ ~cancelled

RECURSIVE StartPages(_, _, _)
\* batch.map(crawlPage) up to each call's first await: the guards of
\* crawlPage and visited.add, item by item. Returns the new visited set and,
\* in order, whether each item's navigation was started.
StartPages(items, vis, acc) ==
  IF items = <<>> THEN [visited |-> vis, started |-> acc]
  ELSE LET u == Head(items).url
           go == u \notin vis /\ ~shouldSkipUrl(u) /\ isSameOrigin(u)
       IN StartPages(Tail(items), IF go THEN vis \cup {u} ELSE vis,
                     Append(acc, go))

\* a splice that takes the whole queue as one batch
spliceCount_All(q, c) == Len(q)

\* queue.splice(0, config.concurrency): the number of items taken
spliceCount(q, c) == Min(c.concurrency, Len(q))

\* one evaluation of the loop head of crawl(): start the next batch or leave
CrawlLoopHead ==
  /\ pc = "crawlLoop"
  /\ IF CrawlLoopCond(queue, visited, crawlCancelled, cfg)
       THEN LET n == spliceCount(queue, cfg)
                b == SubSeq(queue, 1, n)
                st == StartPages(b, visited, <<>>)
            IN /\ batch' = b
               /\ queue' = SubSeq(queue, n + 1, Len(queue))
               /\ visited' = st.visited
               /\ results' = [i \in 1 .. n |->
                                IF st.started[i]
                                  THEN [state |-> "inflight", links |-> {}]
                                  ELSE [state |-> "null", links |-> {}]]
               /\ pc' = "crawlBatch"
       ELSE /\ pc' = "crawlClose"
            /\ UNCHANGED <<batch, queue, visited, results>>
  /\ UNCHANGED <<pureVars, requestVars, scanStatus, site, cfg, cancels, crawlerBrowser, scannerBrowser, crawlCancelled,
                 discovered, pages, totalPagesCnt, scannedPagesCnt, scanVars, dedupVars>>

\* PageModel.create + updateStatus: a new row of table pages
NewPage(u, status, title) ==
  [url |-> u, status |-> status, title |-> title, fp |-> EmptyFp]

\* crawlPage, try branch: the page loads; its row is stored as 'pending'
CrawlPageLoaded(i) ==
  /\ pc = "crawlBatch"
  /\ results[i].state = "inflight"
  /\ pages' = Append(pages, NewPage(batch[i].url, "pending", TitleOf(batch[i].url)))
  /\ results' = [results EXCEPT ![i] = [state |-> "ok", links |-> LinksOf(site, batch[i].url)]]
  /\ UNCHANGED <<pureVars, requestVars, pc, scanStatus, site, cfg, cancels, crawlerBrowser, scannerBrowser, visited,
                 queue, crawlCancelled, batch, discovered, totalPagesCnt, scannedPagesCnt,
                 scanVars, dedupVars>>

\* crawlPage, catch branch: the load fails; its row is stored as 'error'
CrawlPageFailed(i) ==
  /\ pc = "crawlBatch"
  /\ results[i].state = "inflight"
  /\ pages' = Append(pages, NewPage(batch[i].url, "error", ""))
  /\ results' = [results EXCEPT ![i] = [state |-> "null", links |-> {}]]
  /\ UNCHANGED <<pureVars, requestVars, pc, scanStatus, site, cfg, cancels, crawlerBrowser, scannerBrowser, visited,
                 queue, crawlCancelled, batch, discovered, totalPagesCnt, scannedPagesCnt,
                 scanVars, dedupVars>>

QueuedUrls(q) == {q[i].url : i \in 1 .. Len(q)}

\* CrawlerService.processLinks: the new queue
processLinks(q, vis, links, item, currentDepth, c) ==
  IF currentDepth >= c.maxDepth THEN q
  ELSE LET resolved == {resolveUrl(l) : l \in links} \ {BadHref}
           normalized == {normalizeUrl(l) : l \in resolved}
           fresh == {l \in normalized : /\ l \notin vis
                                        /\ l \notin QueuedUrls(q)
                                        /\ isSameOrigin(l)
                                        /\ ~shouldSkipUrl(l)}
           ordered == SetToSeq(fresh)
       IN q \o [k \in 1 .. Len(ordered) |->
                  [url |-> ordered[k], depth |-> currentDepth + 1,
                   hops |-> item.hops + 1]]

\* the depth crawl() hands to processLinks for the results of a batch
BatchDepth(b) == IF Len(b) > 0 THEN b[1].depth ELSE 0

RECURSIVE ProcessResults(_, _, _, _, _, _, _)
\* the for loop over the results of a batch
ProcessResults(i, b, res, q, disc, vis, c) ==
  IF i > Len(b) THEN [queue |-> q, discovered |-> disc]
  ELSE IF res[i].state = "ok"
    THEN ProcessResults(i + 1, b, res,
                        processLinks(q, vis, res[i].links, b[i], BatchDepth(b), c),
                        Append(disc, b[i].url), vis, c)
    ELSE ProcessResults(i + 1, b, res, q, disc, vis, c)

\* Promise.all of the batch resolves: results are processed in batch order
CrawlBatchDone ==
  /\ pc = "crawlBatch"
  /\ \A i \in 1 .. Len(batch) : results[i].state # "inflight"
  /\ LET r == ProcessResults(1, batch, results, queue, discovered, visited, cfg)
     IN /\ queue' = r.queue
        /\ discovered' = r.discovered
  /\ batch' = <<>>
  /\ results' = <<>>
  /\ pc' = "crawlLoop"
  /\ UNCHANGED <<pureVars, requestVars, scanStatus, site, cfg, cancels, crawlerBrowser, scannerBrowser, visited,
                 crawlCancelled, pages, totalPagesCnt, scannedPagesCnt, scanVars, dedupVars>>

\* crawl() returns (context closed); runScan stores total_pages and enters
\* phase 2: status 'scanning', await scannerService.initialize
CrawlReturn ==
  /\ pc = "crawlClose"
  /\ totalPagesCnt' = Len(discovered)
  /\ scanStatus' = "scanning"
  /\ pc' = "scanInit"
  /\ UNCHANGED <<pureVars, requestVars, site, cfg, cancels, crawlerBrowser, scannerBrowser, crawlVars, pages,
                 scannedPagesCnt, scanVars, dedupVars>>

(***************************************************************************)
(* runScan, phase 2: ScannerService.scanPages                              *)
(***************************************************************************)
\* what the evaluator reports for a page: a list of violation nodes
EvaluatorResults == {<<>>, <<VioAlt, VioBtn>>}
\* what extractRegionFingerprints yields (EmptyFp: the 10 s timeout won)
ScanFps == {FpMap("h1", NoFp, "b1"), EmptyFp}
\* the faults that take scanPage to its catch block
PageFaults == {"navigation", "evaluator-timeout", "fingerprint-throw"}

RECURSIVE OrderByUrl(_, _)
\* ORDER BY url: the page ids of a set, by url (ties by id)
OrderByUrl(pg, ids) ==
  IF ids = {} THEN <<>>
  ELSE LET first == CHOOSE p \in ids : \A o \in ids :
                      \/ pg[p].url < pg[o].url
                      \/ (pg[p].url = pg[o].url /\ p <= o)
       IN <<first>> \o OrderByUrl(pg, ids \ {first})

\* PageModel.findByScanId(scanId).filter(status === st)
PagesWithStatus(pg, st) ==
  OrderByUrl(pg, {p \in 1 .. Len(pg) : pg[p].status = st})

\* PageModel.countScannedByScanId
countScannedByScanId(pg) ==
  Cardinality({p \in 1 .. Len(pg) : pg[p].status \in {"complete", "error"}})

\* scannerService.initialize resolves (browser launched); scanPages() is
\* entered: fields reset, then await browser.newContext
ScanEnter ==
  /\ pc = "scanInit"
  /\ scannerBrowser' = TRUE
  /\ scanCancelled' = FALSE
  /\ pc' = "scanCtx"
  /\ UNCHANGED <<pureVars, requestVars, scanStatus, site, cfg, cancels, crawlerBrowser, crawlVars,
                 pages, totalPagesCnt, scannedPagesCnt, scanList, scanIdx, scannedCount, progress,
                 dedupVars>>

\* newContext resolves: the pending pages are read, scannedCount = 0, i = 0
ScanContextReady ==
  /\ pc = "scanCtx"
  /\ scanList' = PagesWithStatus(pages, "pending")
  /\ scanIdx' = 0
  /\ scannedCount' = 0
  /\ pc' = "scanLoop"
  /\ UNCHANGED <<pureVars, requestVars, scanStatus, site, cfg, cancels, crawlerBrowser, scannerBrowser, crawlVars,
                 pages, totalPagesCnt, scannedPagesCnt, scanCancelled, progress, dedupVars>>

\* the for condition of scanPages()
ScanLoopCond(i, list, cancelled) == i < Len(list) /\ ~cancelled

\* one evaluation of the loop head of scanPages(): next batch or leave
ScanLoopHead ==
  /\ pc = "scanLoop"
  /\ IF ScanLoopCond(scanIdx, scanList, scanCancelled)
       THEN LET b == SubSeq(scanList, scanIdx + 1,
                            Min(scanIdx + cfg.concurrency, Len(scanList)))
            IN /\ batch' = b
               /\ results' = [i \in 1 .. Len(b) |-> [state |-> "new", links |-> {}]]
               /\ pc' = "scanBatch"
       ELSE /\ pc' = "scanClose"
            /\ UNCHANGED <<batch, results>>
  /\ UNCHANGED <<pureVars, requestVars, scanStatus, site, cfg, cancels, crawlerBrowser, scannerBrowser, visited, queue,
                 crawlCancelled, discovered, pages, totalPagesCnt, scannedPagesCnt, scanVars,
                 dedupVars>>

\* scanPage: newPage resolves, the page row becomes 'scanning'
ScanPageBegin(i) ==
  /\ pc = "scanBatch"
  /\ results[i].state = "new"
  /\ pages' = [pages EXCEPT ![batch[i]].status = "scanning"]
  /\ results' = [results EXCEPT ![i].state = "scanning"]
  /\ UNCHANGED <<pureVars, requestVars, pc, scanStatus, site, cfg, cancels, crawlerBrowser, scannerBrowser, visited,
                 queue, crawlCancelled, batch, discovered, totalPagesCnt, scannedPagesCnt,
                 scanVars, dedupVars>>

\* a catch block that forgets PageModel.updateStatus(page.id, 'error')
PageAfterFault_Unmarked(page, fault) == page

\* scanPage, catch block: the page row after a fault
PageAfterFault(page, fault) == [page EXCEPT !.status = "error"]

\* scanPage, catch block: the issues table after a fault on a page
IssuesAfterFault(iss, pid, fault) == iss

\* scanPage, catch branch (navigation failure, evaluator timeout, ...)
ScanPageError(i, fault) ==
  /\ pc = "scanBatch"
  /\ results[i].state = "scanning"
  /\ pages' = [pages EXCEPT ![batch[i]] = PageAfterFault(pages[batch[i]], fault)]
  /\ issues' = IssuesAfterFault(issues, batch[i], fault)
  /\ results' = [results EXCEPT ![i].state = fault]
  /\ UNCHANGED <<pureVars, requestVars, pc, scanStatus, site, cfg, cancels, crawlerBrowser, scannerBrowser, visited,
                 queue, crawlCancelled, batch, discovered, totalPagesCnt, scannedPagesCnt,
                 scanVars, groups, sc, nextId, runs, firstRun>>

\* scanPage "Process violations": the issue rows of a page
IssueRows(pid, violations, fp) ==
  [k \in 1 .. Len(violations) |->
     LET region == detectRegionFromSelector(violations[k].sel)
     IN [page |-> pid,
         rule |-> violations[k].rule,
         sel |-> violations[k].sel.text,
         region |-> region,
         rfp |-> IF region \in Regions THEN fp[region] ELSE NoFp,
         shared |-> FALSE,
         group |-> NoGroup]]

\* scanPage, try branch: issues stored, page 'complete', fingerprints stored
ScanPageComplete(i, violations, fp) ==
  /\ pc = "scanBatch"
  /\ results[i].state = "scanning"
  /\ issues' = issues \o IssueRows(batch[i], violations, fp)
  /\ pages' = [pages EXCEPT ![batch[i]].status = "complete",
                            ![batch[i]].fp = fp]
  /\ results' = [results EXCEPT ![i].state = "complete"]
  /\ UNCHANGED <<pureVars, requestVars, pc, scanStatus, site, cfg, cancels, crawlerBrowser, scannerBrowser, visited,
                 queue, crawlCancelled, batch, discovered, totalPagesCnt, scannedPagesCnt,
                 scanVars, groups, sc, nextId, runs, firstRun>>

\* a counter advanced by the batch size configured, not by the batch taken
scannedAfterBatch_Stride(count, b) == count + cfg.concurrency

\* scanPages: scannedCount += batch.length
scannedAfterBatch(count, b) == count + Len(b)

\* Promise.all of the batch resolves: scan:progress is emitted with the new
\* scannedCount and pages.length, i += concurrency
ScanBatchDone ==
  /\ pc = "scanBatch"
  /\ \A i \in 1 .. Len(batch) : results[i].state \notin {"new", "scanning"}
  /\ scannedCount' = scannedAfterBatch(scannedCount, batch)
  /\ progress' = Append(progress,
                        [scannedPages |-> scannedAfterBatch(scannedCount, batch),
                         totalPages |-> Len(scanList)])
  /\ scanIdx' = scanIdx + cfg.concurrency
  /\ batch' = <<>>
  /\ results' = <<>>
  /\ pc' = "scanLoop"
  /\ UNCHANGED <<pureVars, requestVars, scanStatus, site, cfg, cancels, crawlerBrowser, scannerBrowser, visited, queue,
                 crawlCancelled, discovered, pages, totalPagesCnt, scannedPagesCnt, scanCancelled,
                 scanList, dedupVars>>

\* scanPages() returns; runScan stores scanned_pages, sets 'analyzing' and
\* calls deduplicationService.analyze
ScanReturn ==
  /\ pc = "scanClose"
  /\ scannedPagesCnt' = countScannedByScanId(pages)
  /\ scanStatus' = "analyzing"
  /\ runs' = runs + 1
  /\ sc' = <<>>
  /\ pc' = "an_start"
  /\ UNCHANGED <<pureVars, requestVars, site, cfg, cancels, crawlerBrowser, scannerBrowser, crawlVars, pages,
                 totalPagesCnt, scanVars, issues, groups, nextId, firstRun>>

(***************************************************************************)
(* DeduplicationService                                                    *)
(***************************************************************************)
RECURSIVE DistinctAcc(_, _)
DistinctAcc(s, acc) ==
  IF s = <<>> THEN acc
  ELSE DistinctAcc(Tail(s), IF Head(s) \in Range(acc) THEN acc
                            ELSE Append(acc, Head(s)))

\* the first occurrences of a sequence, in order (Map / Set insertion order)
Distinct(s) == DistinctAcc(s, <<>>)

RECURSIVE Concat(_)
\* the concatenation of a sequence of sequences
Concat(ss) == IF ss = <<>> THEN <<>> ELSE Head(ss) \o Concat(Tail(ss))

\* the order in which the regions enter a page's fingerprint map
RegionOrder == <<"header", "nav", "footer", "aside", "main", "body">>

\* shared_components.fingerprint: a bare digest (kind "digest"),
\* selector:<rule>:<selector>, main:<digest> or issue-sig:<paths>
Fingerprint(kind, digest, rule, sel, urls) ==
  [kind |-> kind, digest |-> digest, rule |-> rule, sel |-> sel, urls |-> urls]

\* the dedup key `${axe_rule_id}:${target_selector}` of an issue row
IssueKey(issue) == <<issue.rule, issue.sel>>

\* Math.floor in place of Math.ceil
minPagesForShared_Floor(totalPages) == totalPages \div 2

\* analyze: Math.ceil(totalPages * deduplicationThreshold), threshold 0.5
minPagesForShared(totalPages) == (totalPages + 1) \div 2

\* groupByFingerprints: per region, per digest, the urls of the pages
groupByFingerprints(pg, cp) ==
  Concat([r \in 1 .. Len(RegionOrder) |->
    LET region == RegionOrder[r]
        digests == Distinct(SelectSeq([k \in 1 .. Len(cp) |-> pg[cp[k]].fp[region]],
                                      LAMBDA d : d # NoFp))
    IN [j \in 1 .. Len(digests) |->
          LET with == SelectSeq(cp, LAMBDA p : pg[p].fp[region] = digests[j])
          IN [region |-> region, fingerprint |-> digests[j],
              urls |-> [k \in 1 .. Len(with) |-> pg[with[k]].url]]]])

\* identifySharedComponents: one component per qualifying (region, digest)
identifySharedComponents(rf, minPages, firstId) ==
  LET q == SelectSeq(rf, LAMBDA g : Len(g.urls) >= minPages)
  IN [k \in 1 .. Len(q) |->
        [id |-> firstId + k - 1,
         region |-> q[k].region,
         fingerprint |-> Fingerprint("digest", q[k].fingerprint, "", "", <<>>),
         page_count |-> Len(q[k].urls),
         issue_count |-> 0,
         page_urls |-> q[k].urls]]

\* IssueModel.markManyAsSharedComponent
markManyAsSharedComponent(iss, ids, componentId) ==
  [i \in 1 .. Len(iss) |->
     IF i \in ids THEN [iss[i] EXCEPT !.shared = TRUE, !.group = componentId]
     ELSE iss[i]]

\* identifySharedBySelector: the new components and the issues table
identifySharedBySelector(pg, iss, minPages, firstId) ==
  LET cand == SelectSeq([i \in 1 .. Len(iss) |-> i],
                        LAMBDA i : ~iss[i].shared /\ iss[i].sel # "")
      keys == Distinct([k \in 1 .. Len(cand) |-> IssueKey(iss[cand[k]])])
      members(key) == SelectSeq(cand, LAMBDA i : IssueKey(iss[i]) = key)
      pageIds(key) == {iss[i].page : i \in Range(members(key))}
      q == SelectSeq(keys, LAMBDA key : Cardinality(pageIds(key)) >= minPages)
      comps == [k \in 1 .. Len(q) |->
                  [id |-> firstId + k - 1,
                   region |-> "repeated-element",
                   fingerprint |-> Fingerprint("selector", "", q[k][1], q[k][2], <<>>),
                   page_count |-> Cardinality(pageIds(q[k])),
                   issue_count |-> 1,
                   page_urls |-> Distinct([j \in 1 .. Len(members(q[k])) |->
                                             pg[iss[members(q[k])[j]].page].url])]]
      marked == [i \in 1 .. Len(iss) |->
                  IF \E k \in 1 .. Len(q) : IssueKey(iss[i]) = q[k] /\ i \in Range(cand)
                    THEN LET k == CHOOSE k \in 1 .. Len(q) : IssueKey(iss[i]) = q[k]
                         IN [iss[i] EXCEPT !.shared = TRUE, !.group = firstId + k - 1]
                    ELSE iss[i]]
  IN [comps |-> comps, issues |-> marked]

\* saveSharedComponents: INSERT INTO shared_components
saveSharedComponents(tbl, comps) == tbl \o comps

\* markSharedIssues: the component an issue's (dom_region, region_fingerprint)
\* maps to (0: none); a later component with the same key replaces an earlier
ComponentOf(issue, comps) ==
  LET hits == {k \in 1 .. Len(comps) :
                 /\ comps[k].region = issue.region
                 /\ comps[k].fingerprint = Fingerprint("digest", issue.rfp, "", "", <<>>)}
  IN IF issue.rfp = NoFp \/ hits = {} THEN 0
     ELSE CHOOSE k \in hits : \A o \in hits : o <= k

\* markSharedIssues: the issues table and the shared_components table
markSharedIssues(iss, comps, tbl) ==
  LET compIssues(k) == {i \in 1 .. Len(iss) : ComponentOf(iss[i], comps) = k}
      uniqueIssues(k) == {IssueKey(iss[i]) : i \in compIssues(k)}
      marked == [i \in 1 .. Len(iss) |->
                   IF ComponentOf(iss[i], comps) # 0
                     THEN [iss[i] EXCEPT !.shared = TRUE,
                             !.group = comps[ComponentOf(iss[i], comps)].id]
                     ELSE iss[i]]
      counted == [g \in 1 .. Len(tbl) |->
                    IF \E k \in 1 .. Len(comps) :
                         comps[k].id = tbl[g].id /\ compIssues(k) # {}
                      THEN LET k == CHOOSE k \in 1 .. Len(comps) :
                                      comps[k].id = tbl[g].id /\ compIssues(k) # {}
                           IN [tbl[g] EXCEPT !.issue_count = Cardinality(uniqueIssues(k))]
                      ELSE tbl[g]]
  IN [issues |-> marked, groups |-> counted]

\* the body digest preferred to the main digest
contentFingerprint_BodyFirst(page) ==
  IF page.fp["body"] # NoFp THEN page.fp["body"] ELSE page.fp["main"]

\* identifyDuplicatePages: main digest, else body digest
contentFingerprint(page) ==
  IF page.fp["main"] # NoFp THEN page.fp["main"] ELSE page.fp["body"]

\* a key of one page only counts as found on several pages
onMultiplePages_Any(pageIds) == Cardinality(pageIds) >= 1
\* identifyDuplicatePages: issuePageIds.size >= 2
onMultiplePages(pageIds) == Cardinality(pageIds) >= 2

RECURSIVE MarkDuplicateSets(_, _, _, _, _)
\* the loop over the candidate sets of identifyDuplicatePages (and of
\* identifyDuplicatesByIssueSignature): per set a fresh component id; the
\* ungrouped issues of the set's pages are grouped by key; a key met on two
\* or more pages is marked; a component is pushed when a key was marked
MarkDuplicateSets(pg, sets, k, firstId, acc) ==
  IF k > Len(sets) THEN acc
  ELSE
    LET dupPages == sets[k].pages
        componentId == firstId + k - 1
        open == {i \in 1 .. Len(acc.issues) :
                   /\ acc.issues[i].page \in Range(dupPages)
                   /\ ~acc.issues[i].shared}
        keys == {IssueKey(acc.issues[i]) : i \in open}
        members(key) == {i \in open : IssueKey(acc.issues[i]) = key}
        multi == {key \in keys :
                    onMultiplePages({acc.issues[i].page : i \in members(key)})}
        toMark == {i \in open : IssueKey(acc.issues[i]) \in multi}
        markedCount == Cardinality(multi)
        pageUrls == [j \in 1 .. Len(dupPages) |-> pg[dupPages[j]].url]
        comp == [id |-> componentId,
                 region |-> "duplicate-page",
                 fingerprint |-> IF sets[k].kind = "main"
                                   THEN Fingerprint("main", sets[k].digest, "", "", <<>>)
                                   ELSE Fingerprint("issue-sig", "", "", "", pageUrls),
                 page_count |-> Len(dupPages),
                 issue_count |-> markedCount,
                 page_urls |-> pageUrls]
    IN MarkDuplicateSets(pg, sets, k + 1, firstId,
         [issues |-> markManyAsSharedComponent(acc.issues, toMark, componentId),
          comps |-> IF markedCount > 0 THEN Append(acc.comps, comp) ELSE acc.comps])

\* identifyDuplicatePages: the new components and the issues table
identifyDuplicatePages(pg, cp, iss, firstId) ==
  LET fps == Distinct(SelectSeq([k \in 1 .. Len(cp) |-> contentFingerprint(pg[cp[k]])],
                                LAMBDA d : d # NoFp))
      all == [j \in 1 .. Len(fps) |->
                [kind |-> "main", digest |-> fps[j],
                 pages |-> SelectSeq(cp, LAMBDA p : contentFingerprint(pg[p]) = fps[j])]]
      sets == SelectSeq(all, LAMBDA g : Len(g.pages) >= 2)
      r == MarkDuplicateSets(pg, sets, 1, firstId, [issues |-> iss, comps |-> <<>>])
  IN [issues |-> r.issues, comps |-> r.comps, used |-> Len(sets)]

\* a signature that leaves the page title out
IssueSignature_NoTitle(pg, iss, p) ==
  LET open == {i \in 1 .. Len(iss) : iss[i].page = p /\ ~iss[i].shared}
      keys == {IssueKey(iss[i]) : i \in open}
  IN [title |-> "",
      sig |-> [key \in keys |-> Cardinality({i \in open : IssueKey(iss[i]) = key})]]

\* identifyDuplicatesByIssueSignature: title plus the sorted list of the keys
\* of the page's ungrouped issues (a sorted list is a bag of keys)
IssueSignature(pg, iss, p) ==
  LET open == {i \in 1 .. Len(iss) : iss[i].page = p /\ ~iss[i].shared}
      keys == {IssueKey(iss[i]) : i \in open}
  IN [title |-> pg[p].title,
      sig |-> [key \in keys |-> Cardinality({i \in open : IssueKey(iss[i]) = key})]]

\* identifyDuplicatesByIssueSignature: the new components and the issues table
identifyDuplicatesByIssueSignature(pg, remaining, iss, firstId) ==
  LET hasSig(p) == /\ pg[p].title # ""
                   /\ \E i \in 1 .. Len(iss) : iss[i].page = p /\ ~iss[i].shared
      signed == SelectSeq(remaining, hasSig)
      sigs == Distinct([k \in 1 .. Len(signed) |-> IssueSignature(pg, iss, signed[k])])
      all == [j \in 1 .. Len(sigs) |->
                [kind |-> "issue-sig", digest |-> "",
                 pages |-> SelectSeq(signed,
                             LAMBDA p : IssueSignature(pg, iss, p) = sigs[j])]]
      sets == SelectSeq(all, LAMBDA g : Len(g.pages) >= 2)
      r == MarkDuplicateSets(pg, sets, 1, firstId, [issues |-> iss, comps |-> <<>>])
  IN [issues |-> r.issues, comps |-> r.comps, used |-> Len(sets)]

\* analyze, Phase 4.5: the complete pages outside every duplicate-page component
remainingPages(pg, cp, comps) ==
  LET alreadyDeduped ==
        UNION {Range(comps[k].page_urls) :
                 k \in {j \in 1 .. Len(comps) : comps[j].region = "duplicate-page"}}
  IN SelectSeq(cp, LAMBDA p : pg[p].url \notin alreadyDeduped)

\* ReportService.calculateSummary: totalIssuesRaw, totalIssuesDeduplicated
calculateSummary(iss) ==
  LET sharedIdx == {i \in 1 .. Len(iss) : iss[i].shared /\ iss[i].group # NoGroup}
      seenSharedIssues == {<<iss[i].group, iss[i].rule, iss[i].sel>> : i \in sharedIdx}
      pageSpecificIssues == Cardinality({i \in 1 .. Len(iss) : ~iss[i].shared})
  IN [totalIssuesRaw |-> Len(iss),
      totalIssuesDeduplicated |-> Cardinality(seenSharedIssues) + pageSpecificIssues]

(***************************************************************************)
(* analyze(), step by step                                                 *)
(***************************************************************************)
AnalyzePcs == {"an_start", "an_selector", "an_save", "an_mark", "an_dup", "an_sig"}

\* analyze: the complete pages of the scan
CompletePages == PagesWithStatus(pages, "complete")

\* Phase 1/2: groupByFingerprints and identifySharedComponents
AnalyzeRegions ==
  /\ pc = "an_start"
  /\ LET comps == identifySharedComponents(
                    groupByFingerprints(pages, CompletePages),
                    minPagesForShared(Len(CompletePages)), nextId)
     IN /\ sc' = comps
        /\ nextId' = nextId + Len(comps)
  /\ pc' = "an_selector"
  /\ UNCHANGED <<pureVars, requestVars, scanStatus, site, cfg, cancels, crawlerBrowser, scannerBrowser, crawlVars,
                 pages, totalPagesCnt, scannedPagesCnt, scanVars, issues, groups, runs, firstRun>>

\* Phase 2b: identifySharedBySelector
AnalyzeSelector ==
  /\ pc = "an_selector"
  /\ LET r == identifySharedBySelector(pages, issues,
                minPagesForShared(Len(CompletePages)), nextId)
     IN /\ sc' = sc \o r.comps
        /\ issues' = r.issues
        /\ nextId' = nextId + Len(r.comps)
  /\ pc' = "an_save"
  /\ UNCHANGED <<pureVars, requestVars, scanStatus, site, cfg, cancels, crawlerBrowser, scannerBrowser, crawlVars,
                 pages, totalPagesCnt, scannedPagesCnt, scanVars, groups, runs, firstRun>>

\* saveSharedComponents(sharedComponents)
AnalyzeSave ==
  /\ pc = "an_save"
  /\ groups' = saveSharedComponents(groups, sc)
  /\ pc' = "an_mark"
  /\ UNCHANGED <<pureVars, requestVars, scanStatus, site, cfg, cancels, crawlerBrowser, scannerBrowser, crawlVars,
                 pages, totalPagesCnt, scannedPagesCnt, scanVars, issues, sc, nextId, runs,
                 firstRun>>

\* Phase 3: markSharedIssues
AnalyzeMark ==
  /\ pc = "an_mark"
  /\ LET r == markSharedIssues(issues, sc, groups)
     IN /\ issues' = r.issues
        /\ groups' = r.groups
  /\ pc' = "an_dup"
  /\ UNCHANGED <<pureVars, requestVars, scanStatus, site, cfg, cancels, crawlerBrowser, scannerBrowser, crawlVars,
                 pages, totalPagesCnt, scannedPagesCnt, scanVars, sc, nextId, runs, firstRun>>

\* Phase 4: identifyDuplicatePages, saved when not empty
AnalyzeDuplicatePages ==
  /\ pc = "an_dup"
  /\ LET r == identifyDuplicatePages(pages, CompletePages, issues, nextId)
     IN /\ issues' = r.issues
        /\ groups' = saveSharedComponents(groups, r.comps)
        /\ sc' = sc \o r.comps
        /\ nextId' = nextId + r.used
  /\ pc' = "an_sig"
  /\ UNCHANGED <<pureVars, requestVars, scanStatus, site, cfg, cancels, crawlerBrowser, scannerBrowser, crawlVars,
                 pages, totalPagesCnt, scannedPagesCnt, scanVars, runs, firstRun>>

\* Phase 4.5: identifyDuplicatesByIssueSignature, saved when not empty;
\* analyze() returns
AnalyzeIssueSignature ==
  /\ pc = "an_sig"
  /\ LET r == identifyDuplicatesByIssueSignature(pages,
                remainingPages(pages, CompletePages, sc), issues, nextId)
     IN /\ issues' = r.issues
        /\ groups' = saveSharedComponents(groups, r.comps)
        /\ sc' = sc \o r.comps
        /\ nextId' = nextId + r.used
        /\ firstRun' = IF runs = 1
                         THEN [issues |-> r.issues,
                               groups |-> saveSharedComponents(groups, r.comps)]
                         ELSE firstRun
  /\ pc' = "an_done"
  /\ UNCHANGED <<pureVars, requestVars, scanStatus, site, cfg, cancels, crawlerBrowser, scannerBrowser, crawlVars,
                 pages, totalPagesCnt, scannedPagesCnt, scanVars, runs>>

\* POST /:id/cancel: both singletons are cancelled, the scan is set 'failed'
Cancel ==
  /\ pc \notin {"none", "created", "an_done"} \cup AnalyzePcs
  /\ cancels < MaxCancels
  /\ cancels' = cancels + 1
  /\ crawlCancelled' = TRUE
  /\ scanCancelled' = TRUE
  /\ scanStatus' = "failed"
  /\ UNCHANGED <<pureVars, requestVars, pc, site, cfg, crawlerBrowser, scannerBrowser, visited, queue, batch, results,
                 discovered, pages, totalPagesCnt, scannedPagesCnt, scanList, scanIdx, scannedCount,
                 progress, dedupVars>>

\* deduplicationService.analyze throws (a statement of the store fails):
\* the promise of runScan rejects
AnalyzeThrows ==
  /\ pc \in AnalyzePcs
  /\ pc' = "rejected"
  /\ UNCHANGED <<pureVars, requestVars, scanStatus, site, cfg, cancels, crawlerBrowser, scannerBrowser, crawlVars,
                 pages, totalPagesCnt, scannedPagesCnt, scanVars, dedupVars>>

\* a phase fault: chromium.launch fails in initialize()
PhaseFault ==
  /\ pc \in {"crawlInit", "scanInit"}
  /\ pc' = "rejected"
  /\ UNCHANGED <<pureVars, requestVars, scanStatus, site, cfg, cancels, crawlerBrowser, scannerBrowser, crawlVars,
                 pages, totalPagesCnt, scannedPagesCnt, scanVars, dedupVars>>

\* POST /: runScan(...).catch - the scan is set 'failed'
RunScanCatch ==
  /\ pc = "rejected"
  /\ scanStatus' = "failed"
  /\ pc' = "caught"
  /\ UNCHANGED <<pureVars, requestVars, site, cfg, cancels, crawlerBrowser, scannerBrowser, crawlVars, pages,
                 totalPagesCnt, scannedPagesCnt, scanVars, dedupVars>>

\* analyze() has returned: calculateAndUpdateScore, status 'complete',
\* scan:complete, then await crawlerService.close()
RunScanFinish ==
  /\ pc = "an_done"
  /\ scanStatus' = "complete"
  /\ pc' = "closing"
  /\ UNCHANGED <<pureVars, requestVars, site, cfg, cancels, crawlerBrowser, scannerBrowser, crawlVars, pages,
                 totalPagesCnt, scannedPagesCnt, scanVars, dedupVars>>

\* Cleanup: crawlerService.close() and scannerService.close() resolve
RunScanCleanup ==
  /\ pc = "closing"
  /\ crawlerBrowser' = FALSE
  /\ scannerBrowser' = FALSE
  /\ pc' = "done"
  /\ UNCHANGED <<pureVars, requestVars, scanStatus, site, cfg, cancels, crawlVars, pages, totalPagesCnt, scannedPagesCnt,
                 scanVars, dedupVars>>

\* analyze(scanId) is invoked again on the persisted records
AnalyzeAgain ==
  /\ pc = "an_done"
  /\ runs < MaxRuns
  /\ runs' = runs + 1
  /\ sc' = <<>>
  /\ pc' = "an_start"
  /\ UNCHANGED <<pureVars, requestVars, scanStatus, site, cfg, cancels, crawlerBrowser, scannerBrowser, crawlVars,
                 pages, totalPagesCnt, scannedPagesCnt, scanVars, issues, groups, nextId, firstRun>>

(***************************************************************************)
(* Specifications                                                          *)
(***************************************************************************)
\* the steps of runScan and crawl() that the event loop runs by itself
CrawlSteps ==
  \/ PostScan
  \/ RunScanStart
  \/ CrawlEnter
  \/ CrawlContextReady
  \/ CrawlLoopHead
  \/ \E i \in 1 .. MaxConcurrency : i <= Len(batch) /\ CrawlPageLoaded(i)
  \/ \E i \in 1 .. MaxConcurrency : i <= Len(batch) /\ CrawlPageFailed(i)
  \/ CrawlBatchDone
  \/ CrawlReturn

NextCrawl ==
  \/ CrawlSteps
  \/ Cancel

NextScan ==
  \/ ScanEnter
  \/ ScanContextReady
  \/ ScanLoopHead
  \/ \E i \in 1 .. MaxConcurrency : i <= Len(batch) /\ ScanPageBegin(i)
  \/ \E i \in 1 .. MaxConcurrency, f \in PageFaults :
       i <= Len(batch) /\ ScanPageError(i, f)
  \/ \E i \in 1 .. MaxConcurrency, v \in EvaluatorResults, fp \in ScanFps :
       i <= Len(batch) /\ ScanPageComplete(i, v, fp)
  \/ ScanBatchDone
  \/ ScanReturn

NextAnalyze ==
  \/ AnalyzeRegions
  \/ AnalyzeSelector
  \/ AnalyzeSave
  \/ AnalyzeMark
  \/ AnalyzeDuplicatePages
  \/ AnalyzeIssueSignature

Next ==
  \/ NextCrawl
  \/ NextScan
  \/ NextAnalyze
  \/ AnalyzeThrows
  \/ PhaseFault
  \/ RunScanCatch
  \/ RunScanFinish
  \/ RunScanCleanup

NextDedup ==
  \/ NextAnalyze
  \/ AnalyzeAgain

\* the crawl phase alone, on every site of CrawlSites
SpecCrawl == InitCrawl /\ [][NextCrawl]_vars
\* every page operation completes or times out (goto has a 30 s timeout) and
\* the event loop runs every continuation that is ready
SpecCrawlFair == SpecCrawl /\ WF_vars(CrawlSteps)

PipelineSites == {SmallSite, ChainSite}

InitPipeline ==
  /\ InitCommon
  /\ site \in PipelineSites
  /\ cfg \in {c \in Configs : c.maxPages <= MaxPagesPipe}

\* the whole pipeline of one scan, with cancel requests and faults
Spec == InitPipeline /\ [][Next]_vars

(***************************************************************************)
(* Persisted scans handed to analyze()                                     *)
(***************************************************************************)
\* what a scanned page left in the store: status, fingerprints, findings
\* (body "own": a body digest that no other page of the scan has)
DedupFps ==
  {EmptyFp} \cup {FpMap(h, m, "own") : h \in {NoFp, "h1"}, m \in {NoFp, "m1"}}
DedupFindings == {<<>>, <<VioAlt>>, <<VioAlt, VioBtn>>}
PageProfiles ==
  {[status |-> "error", fp |-> EmptyFp, findings |-> <<>>]}
  \cup [status : {"complete"}, fp : DedupFps, findings : DedupFindings]
\* pages that differ in their header digest only, without findings
WideProfiles ==
  [status : {"complete"}, fp : {FpMap(h, NoFp, "own") : h \in {"h1", "h2", NoFp}},
   findings : {<<>>}]

\* pages that have or lack a common <main> digest, each with a body digest
\* of its own
DupProfiles ==
  [status : {"complete"},
   fp : {FpMap(NoFp, m, "own") : m \in {NoFp, "m1"}},
   findings : {<<>>, <<VioAlt>>, <<VioAlt, VioBtn>>}]

\* pages with one common body digest that have or lack a <main> element, and
\* pages of which no region was fingerprinted
FallbackProfiles ==
  [status : {"complete"},
   fp : {FpMap(NoFp, NoFp, "b1"), FpMap(NoFp, "m1", "b1"), EmptyFp},
   findings : {<<>>, <<VioAlt>>}]

\* pages with a content digest of their own that differ in title (none,
\* "Page", "Home") and findings
TitledProfiles ==
  [status : {"complete"}, fp : {FpMap(NoFp, NoFp, "own")},
   findings : {<<VioAlt>>}, title : {"", "Page", "Home"}]
  \cup {[status |-> "complete", fp |-> FpMap(NoFp, NoFp, "own"),
          findings |-> <<>>, title |-> "Page"]}

RECURSIVE SeqOfSet(_)
\* some enumeration of a finite set
SeqOfSet(S) ==
  IF S = {} THEN <<>>
  ELSE LET x == CHOOSE x \in S : TRUE IN <<x>> \o SeqOfSet(S \ {x})

\* the page and issue tables of a scan whose pages have the given profiles;
\* page p has url p
ProfileFp(profs, p) ==
  IF profs[p].fp["body"] = "own"
    THEN [profs[p].fp EXCEPT !["body"] = "own" \o ToString(p)]
    ELSE profs[p].fp
PageTable(profs) ==
  [p \in 1 .. Len(profs) |->
     [url |-> p, status |-> profs[p].status,
      title |-> IF "title" \in DOMAIN profs[p] THEN profs[p].title ELSE "Page",
      fp |-> ProfileFp(profs, p)]]
IssueTable(profs) ==
  Concat([p \in 1 .. Len(profs) |->
            IssueRows(p, profs[p].findings, ProfileFp(profs, p))])

\* the scans of n pages drawn from a list of profiles, up to page order
ScansOf(profList, n) ==
  {[p \in 1 .. n |-> profList[f[p]]] :
     f \in {g \in [1 .. n -> 1 .. Len(profList)] :
              \A p \in 1 .. n - 1 : g[p] <= g[p + 1]}}

InitDedup ==
  /\ \/ \E n \in 1 .. MaxPagesDedup :
          \E profs \in ScansOf(SeqOfSet(PageProfiles), n) :
             pages = PageTable(profs) /\ issues = IssueTable(profs)
     \/ \E n \in 1 .. MaxPagesWide :
          \E profs \in ScansOf(SeqOfSet(WideProfiles), n) :
             pages = PageTable(profs) /\ issues = IssueTable(profs)
     \/ \E n \in MaxPagesDup - 1 .. MaxPagesDup :
          \E profs \in ScansOf(SeqOfSet(DupProfiles), n) :
             pages = PageTable(profs) /\ issues = IssueTable(profs)
     \/ \E profs \in ScansOf(SeqOfSet(FallbackProfiles), MaxPagesDup) :
          pages = PageTable(profs) /\ issues = IssueTable(profs)
     \/ \E profs \in ScansOf(SeqOfSet(TitledProfiles), MaxPagesTitled) :
          pages = PageTable(profs) /\ issues = IssueTable(profs)
  /\ InitPure
  /\ InitNoRequests
  /\ pc = "an_start"
  /\ scanStatus = "analyzing"
  /\ site = SmallSite
  /\ cfg = [maxPages |-> MaxPagesCfg, maxDepth |-> MaxDepthCfg,
            concurrency |-> MaxConcurrency]
  /\ cancels = 0
  /\ crawlerBrowser = TRUE
  /\ scannerBrowser = TRUE
  /\ visited = {}
  /\ queue = <<>>
  /\ crawlCancelled = FALSE
  /\ batch = <<>>
  /\ results = <<>>
  /\ discovered = <<>>
  /\ totalPagesCnt = Len(pages)
  /\ scannedPagesCnt = Len(pages)
  /\ scanCancelled = FALSE
  /\ scanList = <<>>
  /\ scanIdx = 0
  /\ scannedCount = 0
  /\ progress = <<>>
  /\ groups = <<>>
  /\ sc = <<>>
  /\ nextId = 1
  /\ runs = 1
  /\ firstRun = [issues |-> <<>>, groups |-> <<>>]

\* analyze() on persisted scans, run up to MaxRuns times
SpecDedup == InitDedup /\ [][NextDedup]_vars

(***************************************************************************)
(* normalizeUrl applied to a URL string and again to its result            *)
(***************************************************************************)
\* the state the services are in while only a pure function is followed
InitIdle ==
  /\ InitNoRequests
  /\ pc = "none"
  /\ scanStatus = "none"
  /\ site = SmallSite
  /\ cfg = [maxPages |-> MaxPagesCfg, maxDepth |-> MaxDepthCfg,
            concurrency |-> MaxConcurrency]
  /\ cancels = 0
  /\ crawlerBrowser = FALSE
  /\ scannerBrowser = FALSE
  /\ visited = {}
  /\ queue = <<>>
  /\ crawlCancelled = FALSE
  /\ batch = <<>>
  /\ results = <<>>
  /\ discovered = <<>>
  /\ pages = <<>>
  /\ totalPagesCnt = 0
  /\ scannedPagesCnt = 0
  /\ scanCancelled = FALSE
  /\ scanList = <<>>
  /\ scanIdx = 0
  /\ scannedCount = 0
  /\ progress = <<>>
  /\ issues = <<>>
  /\ groups = <<>>
  /\ sc = <<>>
  /\ nextId = 1
  /\ runs = 0
  /\ firstRun = [issues |-> <<>>, groups |-> <<>>]

InitUrl ==
  /\ InitIdle
  /\ urlString \in Hrefs
  /\ urlNormalized = <<>>
  /\ subtreeA = CHOOSE el \in RegionElements : TRUE
  /\ subtreeB = CHOOSE el \in RegionElements : TRUE
  /\ fpA = NoFingerprint
  /\ fpB = NoFingerprint

\* normalizeUrl(urlString)
NormalizeFirst ==
  /\ urlNormalized = <<>>
  /\ urlNormalized' = <<normalizeUrl(urlString)>>
  /\ UNCHANGED <<requestVars, urlString, subtreeA, subtreeB, fpA, fpB, pc, scanStatus, site,
                 cfg, cancels, crawlerBrowser, scannerBrowser, crawlVars, pages, totalPagesCnt, scannedPagesCnt,
                 scanVars, dedupVars>>
\* normalizeUrl applied to the result of the first call
NormalizeAgain ==
  /\ Len(urlNormalized) = 1
  /\ urlNormalized' = Append(urlNormalized, normalizeUrl(urlNormalized[1]))
  /\ UNCHANGED <<requestVars, urlString, subtreeA, subtreeB, fpA, fpB, pc, scanStatus, site,
                 cfg, cancels, crawlerBrowser, scannerBrowser, crawlVars, pages, totalPagesCnt, scannedPagesCnt,
                 scanVars, dedupVars>>

NextUrl == NormalizeFirst \/ NormalizeAgain
SpecUrl == InitUrl /\ [][NextUrl]_vars

(***************************************************************************)
(* The fingerprints of two region elements                                 *)
(***************************************************************************)
InitFingerprint ==
  /\ InitIdle
  /\ urlString = RootUrl
  /\ urlNormalized = <<>>
  /\ subtreeA \in RegionElements
  /\ subtreeB \in RegionElements
  /\ fpA = NoFingerprint
  /\ fpB = NoFingerprint

\* extractRegionFingerprints for the first element
FingerprintA ==
  /\ fpA = NoFingerprint
  /\ fpA' = <<RegionFingerprint(subtreeA)>>
  /\ UNCHANGED <<requestVars, urlString, urlNormalized, subtreeA, subtreeB, fpB, pc,
                 scanStatus, site, cfg, cancels, crawlerBrowser, scannerBrowser, crawlVars, pages,
                 totalPagesCnt, scannedPagesCnt, scanVars, dedupVars>>
\* extractRegionFingerprints for the second element
FingerprintB ==
  /\ fpB = NoFingerprint
  /\ fpB' = <<RegionFingerprint(subtreeB)>>
  /\ UNCHANGED <<requestVars, urlString, urlNormalized, subtreeA, subtreeB, fpA, pc,
                 scanStatus, site, cfg, cancels, crawlerBrowser, scannerBrowser, crawlVars, pages,
                 totalPagesCnt, scannedPagesCnt, scanVars, dedupVars>>

NextFingerprint == FingerprintA \/ FingerprintB
SpecFingerprint == InitFingerprint /\ [][NextFingerprint]_vars

(***************************************************************************)
(* Two scan requests served by one process: the router hands both to the   *)
(* same CrawlerService and ScannerService objects.  The browser and        *)
(* context handles and the analysis are not followed here.                 *)
(***************************************************************************)
\* the variables of the pipeline of a single scan
singleVars ==
  <<pureVars, pc, scanStatus, site, cfg, cancels, crawlerBrowser, scannerBrowser, crawlVars, pages,
    totalPagesCnt, scannedPagesCnt, scanVars, dedupVars>>

\* the positions of runScan inside crawl() and inside scanPages()
CrawlPcs == {"crawlCtx", "crawlLoop", "crawlBatch", "crawlClose"}
ScanPcs == {"scanCtx", "scanLoop", "scanBatch", "scanClose"}

\* POST /: ScanModel.create, then runScan up to its first await: status
\* 'crawling', await crawlerService.initialize
SubmitScan(s) ==
  /\ runPc[s] = "none"
  /\ scans' = [scans EXCEPT ![s] = "crawling"]
  /\ runPc' = [runPc EXCEPT ![s] = "crawlInit"]
  /\ UNCHANGED <<singleVars, crawler, scanner, calls, pageRows, issueRows,
                 emitted, cancelReqs>>

\* crawl(scanId) is entered: the fields of the singleton are reset, then
\* await browser.newContext
CrawlEnterOf(s) ==
  /\ runPc[s] = "crawlInit"
  /\ crawler' = [scanId |-> s, visited |-> {}, queue |-> <<>>, isCancelled |-> FALSE]
  /\ runPc' = [runPc EXCEPT ![s] = "crawlCtx"]
  /\ UNCHANGED <<singleVars, scans, scanner, calls, pageRows, issueRows,
                 emitted, cancelReqs>>

\* newContext resolves: the root is queued, discoveredUrls = []
CrawlContextReadyOf(s) ==
  /\ runPc[s] = "crawlCtx"
  /\ crawler' = [crawler EXCEPT !.queue =
                   Append(crawler.queue,
                          [url |-> normalizeUrl(RootUrl), depth |-> 0, hops |-> 0])]
  /\ calls' = [calls EXCEPT ![s].discoveredUrls = <<>>]
  /\ runPc' = [runPc EXCEPT ![s] = "crawlLoop"]
  /\ UNCHANGED <<singleVars, scans, scanner, pageRows, issueRows, emitted,
                 cancelReqs>>

\* one evaluation of the loop head of crawl() by the call of scan s
CrawlLoopHeadOf(s) ==
  /\ runPc[s] = "crawlLoop"
  /\ IF CrawlLoopCond(crawler.queue, crawler.visited, crawler.isCancelled, cfg)
       THEN LET n == spliceCount(crawler.queue, cfg)
                b == SubSeq(crawler.queue, 1, n)
                st == StartPages(b, crawler.visited, <<>>)
            IN /\ crawler' = [crawler EXCEPT
                                !.queue = SubSeq(crawler.queue, n + 1, Len(crawler.queue)),
                                !.visited = st.visited]
               /\ calls' = [calls EXCEPT
                              ![s].batch = b,
                              ![s].results =
                                 [i \in 1 .. n |->
                                    IF st.started[i]
                                      THEN [state |-> "inflight", links |-> {}]
                                      ELSE [state |-> "null", links |-> {}]]]
               /\ runPc' = [runPc EXCEPT ![s] = "crawlBatch"]
       ELSE /\ runPc' = [runPc EXCEPT ![s] = "crawlClose"]
            /\ UNCHANGED <<crawler, calls>>
  /\ UNCHANGED <<singleVars, scans, scanner, pageRows, issueRows, emitted,
                 cancelReqs>>

\* crawlPage of scan s, try branch: the row is created under this.scanId
\* and crawl:page:found is emitted to the room this.scanId
CrawlPageLoadedOf(s, i) ==
  /\ runPc[s] = "crawlBatch"
  /\ calls[s].results[i].state = "inflight"
  /\ pageRows' = Append(pageRows,
                        [scan_id |-> crawler.scanId, url |-> calls[s].batch[i].url,
                         status |-> "pending", by |-> s])
  /\ emitted' = emitted \cup {[event |-> "crawl:page:found", room |-> crawler.scanId, by |-> s]}
  /\ calls' = [calls EXCEPT ![s].results[i] =
                 [state |-> "ok", links |-> LinksOf(site, calls[s].batch[i].url)]]
  /\ UNCHANGED <<singleVars, scans, runPc, crawler, scanner, issueRows,
                 cancelReqs>>

\* crawlPage of scan s, catch branch: the row is created as 'error'
CrawlPageFailedOf(s, i) ==
  /\ runPc[s] = "crawlBatch"
  /\ calls[s].results[i].state = "inflight"
  /\ pageRows' = Append(pageRows,
                        [scan_id |-> crawler.scanId, url |-> calls[s].batch[i].url,
                         status |-> "error", by |-> s])
  /\ calls' = [calls EXCEPT ![s].results[i] = [state |-> "null", links |-> {}]]
  /\ UNCHANGED <<singleVars, scans, runPc, crawler, scanner, issueRows,
                 emitted, cancelReqs>>

\* Promise.all of the batch of scan s resolves: the results are processed
CrawlBatchDoneOf(s) ==
  /\ runPc[s] = "crawlBatch"
  /\ \A i \in 1 .. Len(calls[s].batch) : calls[s].results[i].state # "inflight"
  /\ LET r == ProcessResults(1, calls[s].batch, calls[s].results, crawler.queue,
                             calls[s].discoveredUrls, crawler.visited, cfg)
     IN /\ crawler' = [crawler EXCEPT !.queue = r.queue]
        /\ calls' = [calls EXCEPT ![s].discoveredUrls = r.discovered,
                                  ![s].batch = <<>>,
                                  ![s].results = <<>>]
  /\ runPc' = [runPc EXCEPT ![s] = "crawlLoop"]
  /\ UNCHANGED <<singleVars, scans, scanner, pageRows, issueRows, emitted,
                 cancelReqs>>

\* crawl() of scan s returns; runScan sets 'scanning' and awaits
\* scannerService.initialize
CrawlReturnOf(s) ==
  /\ runPc[s] = "crawlClose"
  /\ scans' = [scans EXCEPT ![s] = "scanning"]
  /\ runPc' = [runPc EXCEPT ![s] = "scanInit"]
  /\ UNCHANGED <<singleVars, crawler, scanner, calls, pageRows, issueRows,
                 emitted, cancelReqs>>

\* scanPages(scanId) is entered: the fields of the singleton are reset
ScanEnterOf(s) ==
  /\ runPc[s] = "scanInit"
  /\ scanner' = [scanId |-> s, isCancelled |-> FALSE]
  /\ runPc' = [runPc EXCEPT ![s] = "scanCtx"]
  /\ UNCHANGED <<singleVars, scans, crawler, calls, pageRows, issueRows,
                 emitted, cancelReqs>>

\* newContext resolves: the pending pages of the scan are read
\* (PageModel.findByScanId(scanId), by url), i = 0
ScanContextReadyOf(s) ==
  /\ runPc[s] = "scanCtx"
  /\ calls' = [calls EXCEPT
                 ![s].pages =
                    OrderByUrl(pageRows,
                               {p \in 1 .. Len(pageRows) :
                                  /\ pageRows[p].scan_id = s
                                  /\ pageRows[p].status = "pending"}),
                 ![s].i = 0]
  /\ runPc' = [runPc EXCEPT ![s] = "scanLoop"]
  /\ UNCHANGED <<singleVars, scans, crawler, scanner, pageRows, issueRows,
                 emitted, cancelReqs>>

\* one evaluation of the loop head of scanPages() by the call of scan s
ScanLoopHeadOf(s) ==
  /\ runPc[s] = "scanLoop"
  /\ IF ScanLoopCond(calls[s].i, calls[s].pages, scanner.isCancelled)
       THEN LET b == SubSeq(calls[s].pages, calls[s].i + 1,
                            Min(calls[s].i + cfg.concurrency, Len(calls[s].pages)))
            IN /\ calls' = [calls EXCEPT
                              ![s].batch = b,
                              ![s].results =
                                 [i \in 1 .. Len(b) |-> [state |-> "new", links |-> {}]]]
               /\ runPc' = [runPc EXCEPT ![s] = "scanBatch"]
       ELSE /\ runPc' = [runPc EXCEPT ![s] = "scanClose"]
            /\ UNCHANGED calls
  /\ UNCHANGED <<singleVars, scans, crawler, scanner, pageRows, issueRows,
                 emitted, cancelReqs>>

\* scanPage of scan s: scan:page:start is emitted to the room this.scanId,
\* the row becomes 'scanning'
ScanPageBeginOf(s, i) ==
  /\ runPc[s] = "scanBatch"
  /\ calls[s].results[i].state = "new"
  /\ emitted' = emitted \cup {[event |-> "scan:page:start", room |-> scanner.scanId, by |-> s]}
  /\ pageRows' = [pageRows EXCEPT ![calls[s].batch[i]].status = "scanning"]
  /\ calls' = [calls EXCEPT ![s].results[i].state = "scanning"]
  /\ UNCHANGED <<singleVars, scans, runPc, crawler, scanner, issueRows,
                 cancelReqs>>

\* scanPage of scan s settles: try branch (issues stored under this.scanId,
\* row 'complete') or catch branch (row 'error')
ScanPageSettleOf(s, i, ok) ==
  /\ runPc[s] = "scanBatch"
  /\ calls[s].results[i].state = "scanning"
  /\ IF ok
       THEN /\ issueRows' = issueRows \cup
                 {[scan_id |-> scanner.scanId, page |-> calls[s].batch[i], by |-> s]}
            /\ pageRows' = [pageRows EXCEPT ![calls[s].batch[i]].status = "complete"]
            /\ emitted' = emitted \cup {[event |-> "scan:page:complete", room |-> scanner.scanId, by |-> s]}
       ELSE /\ issueRows' = issueRows
            /\ pageRows' = [pageRows EXCEPT ![calls[s].batch[i]].status = "error"]
            /\ emitted' = emitted \cup {[event |-> "scan:page:error", room |-> scanner.scanId, by |-> s]}
  /\ calls' = [calls EXCEPT ![s].results[i].state = IF ok THEN "complete" ELSE "error"]
  /\ UNCHANGED <<singleVars, scans, runPc, crawler, scanner, cancelReqs>>

\* Promise.all of the batch of scan s resolves: scan:progress is emitted to
\* the room of the call's own scanId, i += concurrency
ScanBatchDoneOf(s) ==
  /\ runPc[s] = "scanBatch"
  /\ \A i \in 1 .. Len(calls[s].batch) :
        calls[s].results[i].state \notin {"new", "scanning"}
  /\ emitted' = emitted \cup {[event |-> "scan:progress", room |-> s, by |-> s]}
  /\ calls' = [calls EXCEPT ![s].i = calls[s].i + cfg.concurrency,
                            ![s].batch = <<>>,
                            ![s].results = <<>>]
  /\ runPc' = [runPc EXCEPT ![s] = "scanLoop"]
  /\ UNCHANGED <<singleVars, scans, crawler, scanner, pageRows, issueRows,
                 cancelReqs>>

\* scanPages() of scan s returns; runScan sets 'analyzing' and awaits
\* deduplicationService.analyze
ScanReturnOf(s) ==
  /\ runPc[s] = "scanClose"
  /\ scans' = [scans EXCEPT ![s] = "analyzing"]
  /\ runPc' = [runPc EXCEPT ![s] = "analyze"]
  /\ UNCHANGED <<singleVars, crawler, scanner, calls, pageRows, issueRows,
                 emitted, cancelReqs>>

\* analyze resolves; runScan sets 'complete' and cleans up
RunScanFinishOf(s) ==
  /\ runPc[s] = "analyze"
  /\ scans' = [scans EXCEPT ![s] = "complete"]
  /\ runPc' = [runPc EXCEPT ![s] = "done"]
  /\ UNCHANGED <<singleVars, crawler, scanner, calls, pageRows, issueRows,
                 emitted, cancelReqs>>

\* POST /:id/cancel for a scan that exists: both singletons are cancelled
\* and the scan is set 'failed'
CancelScan(s) ==
  /\ scans[s] # "none"
  /\ Len(cancelReqs) < MaxCancels
  /\ cancelReqs' = Append(cancelReqs, s)
  /\ crawler' = [crawler EXCEPT !.isCancelled = TRUE]
  /\ scanner' = [scanner EXCEPT !.isCancelled = TRUE]
  /\ scans' = [scans EXCEPT ![s] = "failed"]
  /\ UNCHANGED <<singleVars, runPc, calls, pageRows, issueRows, emitted>>

NextRequests ==
  \E s \in ScanIds :
     \/ SubmitScan(s)
     \/ CrawlEnterOf(s)
     \/ CrawlContextReadyOf(s)
     \/ CrawlLoopHeadOf(s)
     \/ \E i \in 1 .. Len(calls[s].batch) :
           \/ CrawlPageLoadedOf(s, i)
           \/ CrawlPageFailedOf(s, i)
           \/ ScanPageBeginOf(s, i)
           \/ \E ok \in BOOLEAN : ScanPageSettleOf(s, i, ok)
     \/ CrawlBatchDoneOf(s)
     \/ CrawlReturnOf(s)
     \/ ScanEnterOf(s)
     \/ ScanContextReadyOf(s)
     \/ ScanLoopHeadOf(s)
     \/ ScanBatchDoneOf(s)
     \/ ScanReturnOf(s)
     \/ RunScanFinishOf(s)
     \/ CancelScan(s)

InitRequests ==
  /\ InitCommon
  /\ site = ChainSite
  /\ cfg \in {c \in Configs : /\ c.maxPages <= MaxPagesRequests
                               /\ c.maxDepth = 1
                               /\ c.concurrency = 1}

\* two scan requests for one site with one configuration, and cancel requests
SpecRequests == InitRequests /\ [][NextRequests]_vars

(***************************************************************************)
(* Claims                                                                  *)
(***************************************************************************)
\* analyze() of the first run has returned
FirstRunDone == pc = "an_done" /\ runs = 1

\* Scenario A: three complete pages with the same header digest and no other
\* digest in common, each with exactly one issue, all three with one rule id
\* and one header selector
ScenarioA ==
  /\ Len(pages) = 3
  /\ \A p \in 1 .. 3 : /\ pages[p].status = "complete"
                       /\ pages[p].fp["header"] # NoFp
                       /\ pages[p].fp["header"] = pages[1].fp["header"]
                       /\ Cardinality({i \in 1 .. Len(issues) : issues[i].page = p}) = 1
  /\ \A p, q \in 1 .. 3 : \A r \in Regions \ {"header"} :
        p # q => (pages[p].fp[r] = NoFp \/ pages[p].fp[r] # pages[q].fp[r])
  /\ Len(issues) = 3
  /\ \A i \in 1 .. 3 : /\ IssueKey(issues[i]) = IssueKey(issues[1])
                       /\ issues[i].region = "header"

\* C1: in scenario A, after analyze() the summary has totalIssuesRaw = 3 and
\* totalIssuesDeduplicated = 1 and the scan has exactly one shared component,
\* with page count 3.
C1_ScenarioAOneGroup ==
  (FirstRunDone /\ ScenarioA) =>
     /\ calculateSummary(issues).totalIssuesRaw = 3
     /\ calculateSummary(issues).totalIssuesDeduplicated = 1
     /\ Len(groups) = 1
     /\ groups[1].page_count = 3

\* C2: when crawl() returns, the visited set holds at most maxPages URLs and
\* at most maxPages page rows were created.
C2_VisitedWithinMaxPages ==
  pc = "crawlClose" =>
     /\ Cardinality(visited) <= cfg.maxPages
     /\ Len(pages) <= cfg.maxPages

\* C3: every URL that is queued or navigated to was reached from the root by
\* at most maxDepth followed links (so no page at maxDepth or deeper has
\* contributed its links), whatever depths the pages of a batch have.
C3_WithinMaxDepth ==
  /\ \A i \in 1 .. Len(queue) : queue[i].hops <= cfg.maxDepth
  /\ pc = "crawlBatch" => \A i \in 1 .. Len(batch) : batch[i].hops <= cfg.maxDepth

\* the status steps of the scan state machine
StatusSteps ==
  {<<"none", "pending">>, <<"pending", "crawling">>, <<"crawling", "scanning">>,
   <<"scanning", "analyzing">>, <<"analyzing", "complete">>}
  \cup {<<st, "failed">> : st \in {"pending", "crawling", "scanning", "analyzing"}}

\* C4: the status of a scan changes only along pending -> crawling ->
\* scanning -> analyzing -> complete or from a non-terminal status to failed;
\* complete and failed are never left.
C4_StatusStateMachine ==
  [][scanStatus' # scanStatus => <<scanStatus, scanStatus'>> \in StatusSteps]_vars

\* C5: once a cancel request has been accepted, no further batch of page
\* operations is started, in the crawl phase or in the scan phase.
C5_NoBatchAfterCancel ==
  [][cancels > 0 => ~(/\ pc \in {"crawlLoop", "scanLoop"}
                      /\ pc' \in {"crawlBatch", "scanBatch"})]_vars

\* a page operation of the current scan batch ends in the catch block
PageFaultStep(i) ==
  /\ pc = "scanBatch"
  /\ i <= Len(batch)
  /\ results[i].state = "scanning"
  /\ results'[i].state \in PageFaults

\* C6: a navigation failure or evaluator timeout on a page of the scan phase
\* marks exactly that page 'error' and stores no issue for it, leaves the
\* batch running and the scan status as it is; unless the scan is cancelled,
\* every pending page has been scanned when scanPages() leaves its loop.
C6_PageFaultIsLocal ==
  /\ [][\A i \in 1 .. MaxConcurrency : PageFaultStep(i) =>
          /\ pages'[batch[i]].status = "error"
          /\ \A p \in 1 .. Len(pages) : p # batch[i] => pages'[p] = pages[p]
          /\ issues' = issues
          /\ scanStatus' = scanStatus
          /\ pc' = "scanBatch"]_vars
  /\ [](\A p \in 1 .. Len(pages) :
          pages[p].status = "error" =>
            \A i \in 1 .. Len(issues) : issues[i].page # p)
  /\ []((pc = "scanClose" /\ ~scanCancelled) =>
          \A k \in 1 .. Len(scanList) :
             pages[scanList[k]].status \in {"complete", "error"})

\* C6 witness: with concurrency 2, the first page of the first batch faulted,
\* the second page of that batch and the page of the next batch completed,
\* the second one with issues, and the scan is still 'scanning'
C6_Witness ==
  /\ pc = "scanClose"
  /\ scanStatus = "scanning"
  /\ cfg.concurrency = 2
  /\ Len(scanList) = 3
  /\ pages[scanList[1]].status = "error"
  /\ pages[scanList[2]].status = "complete"
  /\ pages[scanList[3]].status = "complete"
  /\ \E i \in 1 .. Len(issues) : issues[i].page = scanList[2]
  /\ \A i \in 1 .. Len(issues) : issues[i].page # scanList[1]

\* C7: when analyze() throws, the scan still ends 'complete' with every issue
\* ungrouped, so that the deduplicated count equals the raw count.
C7_AnalyzeFailureStillComplete ==
  (pc = "caught" /\ runs >= 1) =>
     /\ scanStatus = "complete"
     /\ \A i \in 1 .. Len(issues) : ~issues[i].shared /\ issues[i].group = NoGroup
     /\ calculateSummary(issues).totalIssuesDeduplicated
          = calculateSummary(issues).totalIssuesRaw

\* C8: a second analyze() on the records the first one left yields the same
\* shared components (none added) and the same group on every issue.
C8_AnalyzeIdempotent ==
  (pc = "an_done" /\ runs = 2) =>
     /\ groups = firstRun.groups
     /\ \A i \in 1 .. Len(issues) : issues[i].group = firstRun.issues[i].group

\* C9: within one analyze(), an issue that has a group identifier keeps it.
C9_GroupAssignedOnce ==
  [][(runs = 1 /\ runs' = 1) =>
       \A i \in 1 .. Len(issues) :
          issues[i].group # NoGroup => issues'[i].group = issues[i].group]_vars

\* the complete pages that carry digest d for region r
PagesCarrying(r, d) ==
  {p \in Range(CompletePages) : pages[p].fp[r] = d}

\* the region components of a list of components for (region r, digest d)
RegionComponents(comps, r, d) ==
  {k \in 1 .. Len(comps) :
     /\ comps[k].region = r
     /\ comps[k].fingerprint.kind = "digest"
     /\ comps[k].fingerprint.digest = d}

ContentSet(d) ==
  {p \in Range(CompletePages) : contentFingerprint(pages[p]) = d}

\* the still-ungrouped issues on the pages of S
OpenIssues(S) ==
  {i \in 1 .. Len(issues) : issues[i].page \in S /\ ~issues[i].shared}

\* the pages of S on which a still-ungrouped issue with the key of issue i lies
KeyPages(S, i) ==
  {issues[j].page :
     j \in {o \in OpenIssues(S) : IssueKey(issues[o]) = IssueKey(issues[i])}}

\* the duplicate-page components that a step adds for content fingerprint d
NewDuplicatePageGroups(d) ==
  {k \in Len(groups) + 1 .. Len(groups') :
     /\ groups'[k].region = "duplicate-page"
     /\ groups'[k].fingerprint = Fingerprint("main", d, "", "", <<>>)}

\* C11: in the Layer 3 step, for every set of two or more complete pages with
\* the same content fingerprint, a still-ungrouped issue of the set is put in
\* the set's duplicate-page group exactly when the still-ungrouped issues with
\* its (rule, selector) key lie on two or more pages of the set; otherwise it
\* stays ungrouped, and no group is added for a set in which no key qualifies.
C11_Layer3Rule ==
  [][(pc = "an_dup" /\ pc' = "an_sig") =>
       \A d \in {contentFingerprint(pages[p]) : p \in Range(CompletePages)} \ {NoFp} :
          LET S == ContentSet(d)
          IN Cardinality(S) >= 2 =>
               /\ \A i \in OpenIssues(S) :
                     IF Cardinality(KeyPages(S, i)) >= 2
                       THEN /\ issues'[i].shared
                            /\ \E k \in NewDuplicatePageGroups(d) :
                                  issues'[i].group = groups'[k].id
                       ELSE /\ ~issues'[i].shared
                            /\ issues'[i].group = NoGroup
               /\ (\A i \in OpenIssues(S) : Cardinality(KeyPages(S, i)) < 2)
                     => NewDuplicatePageGroups(d) = {}]_vars

\* scenario B: after Layer 3 a duplicate-page group holds an issue of two
\* pages while another issue of one of its pages is still ungrouped
C11_Witness ==
  /\ pc = "an_sig"
  /\ runs = 1
  /\ \E k \in 1 .. Len(groups) :
        /\ groups[k].region = "duplicate-page"
        /\ groups[k].fingerprint.kind = "main"
        /\ \E i, j \in 1 .. Len(issues) :
              /\ issues[i].group = groups[k].id
              /\ issues[j].page = issues[i].page
              /\ ~issues[j].shared
\* the spelling of a URL without trailing slashes and fragment, with sorted
\* query parameters and a lower-case host
PlainSpelling(h) ==
  LET url == ParseUrl(h)
  IN FormatUrl([path |-> url.path, slashes |-> 0, frag |-> FALSE,
                query |-> IF url.query = "unsorted" THEN "sorted" ELSE url.query])

\* two URL strings differ at most in fragment, query-parameter order,
\* trailing slashes and host-name case
SameUrl(a, b) == PlainSpelling(a) = PlainSpelling(b)

\* C12: no two page records of a crawl (one is created per navigation) are
\* for the same URL up to fragment, query-parameter order, trailing slash and
\* host case; a URL whose load failed is recorded with status error and is
\* not in the queue.
C12_OnePagePerUrl ==
  /\ \A p, q \in 1 .. Len(pages) :
        p # q => ~SameUrl(pages[p].url, pages[q].url)
  /\ \A p \in 1 .. Len(pages) :
        pages[p].status = "error" => pages[p].url \notin QueuedUrls(queue)
\* C13: normalizeUrl applied to its own result returns that result, for every
\* URL string (also with several trailing slashes, also unparsable), and
\* "https://Example.com/1/" and "https://example.com/1" normalize alike.
C13_NormalizeIdempotent ==
  /\ Len(urlNormalized) = 2 => urlNormalized[2] = urlNormalized[1]
  /\ normalizeUrl(Href(1, 1, FALSE, "none", TRUE))
       = normalizeUrl(Href(1, 0, FALSE, "none", FALSE))
\* the attributes the fingerprint is meant to ignore
StrippedAttrs == {"id", "style", "value", "action", "href", "src", "data-x"}

\* an element without its text and stripped attributes, its class tokens as a set
Essence(el) ==
  [tag |-> el.tag,
   attrs |-> WithoutAttrs(el.attrs, StrippedAttrs),
   cls |-> {el.cls[i] : i \in 1 .. Len(el.cls)},
   kids |-> [k \in 1 .. Len(el.kids) |->
               [tag |-> el.kids[k].tag,
                attrs |-> WithoutAttrs(el.kids[k].attrs, StrippedAttrs),
                cls |-> {el.kids[k].cls[i] : i \in 1 .. Len(el.kids[k].cls)}]]]

\* the tags of a subtree in document order
TagStructure(el) ==
  [tag |-> el.tag, kids |-> [k \in 1 .. Len(el.kids) |-> el.kids[k].tag]]

\* C14: two region subtrees that differ only in text, in stripped attributes
\* (on the root or below it) or in class-token order get the same
\* fingerprint; two subtrees of different tag structure get different ones.
C14_FingerprintDeterminism ==
  (fpA # NoFingerprint /\ fpB # NoFingerprint) =>
     /\ Essence(subtreeA) = Essence(subtreeB) => fpA = fpB
     /\ TagStructure(subtreeA) # TagStructure(subtreeB) => fpA # fpB
\* C15: a page whose region fingerprint extraction threw (after the evaluator
\* had returned its findings) is not failed for it: its status is complete,
\* with an empty fingerprint map.
C15_FingerprintFaultTolerated ==
  pc = "scanBatch" =>
    \A i \in 1 .. Len(batch) :
       results[i].state = "fingerprint-throw" =>
          /\ pages[batch[i]].status = "complete"
          /\ pages[batch[i]].fp = EmptyFp
\* C16: on every site of the model, when page operations complete or time
\* out, the loop of crawl() is eventually left, and it is left with an
\* empty queue, with maxPages visited URLs or after a cancel request.
C16_CrawlTerminates ==
  /\ <>(pc = "crawlClose")
  /\ [](pc = "crawlClose" =>
          \/ queue = <<>>
          \/ Cardinality(visited) >= cfg.maxPages
          \/ crawlCancelled)

\* the loop was left although links were still queued
C16_Witness ==
  /\ pc = "crawlClose"
  /\ queue # <<>>
  /\ Len(pages) >= 2
\* C17: when analyze() is invoked, every page of the scan is complete or
\* error (none is pending or scanning), also after a cancel request.
C17_AnalyzeAfterPagesTerminal ==
  pc = "an_start" =>
    \A p \in 1 .. Len(pages) : pages[p].status \in {"complete", "error"}
\* the issues a repeated-element component was formed from
SelectorIssues(comp) ==
  {i \in 1 .. Len(issues) :
     /\ issues[i].rule = comp.fingerprint.rule
     /\ issues[i].sel = comp.fingerprint.sel}

\* C18: Layer 2 works on what Layer 1 left: when identifySharedBySelector has
\* run, no repeated-element component is formed from an issue whose
\* (region, fingerprint) is that of a qualifying Layer 1 component.
C18_Layer2AfterLayer1 ==
  pc = "an_save" =>
    \A k \in 1 .. Len(sc) :
       sc[k].region = "repeated-element" =>
          \A i \in SelectorIssues(sc[k]) : ComponentOf(issues[i], sc) = 0
\* the (rule, selector) keys of the issues whose group is the given id
KeysOfGroup(id) ==
  {IssueKey(issues[i]) : i \in {j \in 1 .. Len(issues) : issues[j].group = id}}

\* C19: when analyze() has returned, the stored issue_count of every shared
\* component is the number of distinct (rule, selector) keys among the issues
\* that carry its id.
C19_IssueCountIsDistinctKeys ==
  pc = "an_done" =>
    \A g \in 1 .. Len(groups) :
       groups[g].issue_count = Cardinality(KeysOfGroup(groups[g].id))
\* C20: every stored shared component has one of the regions header, nav,
\* footer, aside, repeated-element, duplicate-page; none has main or body.
C20_GroupRegions ==
  \A g \in 1 .. Len(groups) :
     groups[g].region \in {"header", "nav", "footer", "aside",
                           "repeated-element", "duplicate-page"}
\* C21: no two page records of a crawl stand for the same final URL, and no
\* two discovered URLs do: a navigation that ends, after redirects, at a URL
\* in the visited set leaves no record and is not returned.
C21_OnePagePerFinalUrl ==
  /\ \A p, q \in 1 .. Len(pages) :
        p # q => FinalUrl(site, pages[p].url) # FinalUrl(site, pages[q].url)
  /\ \A i, j \in 1 .. Len(discovered) :
        i # j => FinalUrl(site, discovered[i]) # FinalUrl(site, discovered[j])
\* the pages of the scan phase that are complete or error
SettledPages(pg) ==
  {k \in 1 .. Len(scanList) : pg[scanList[k]].status \in {"complete", "error"}}

\* C22: a scan:progress event is emitted only when every page operation of
\* the current batch has settled; its scannedPages is not below that of the
\* event before it, does not exceed its totalPages, and is the number of
\* pages of the phase that are complete or error.
C22_ProgressAfterBatch ==
  [][progress' # progress =>
       LET ev == progress'[Len(progress')]
       IN /\ Len(progress') = Len(progress) + 1
          /\ \A i \in 1 .. Len(batch) : results[i].state \notin {"new", "scanning"}
          /\ Len(progress) > 0 =>
                progress[Len(progress)].scannedPages <= ev.scannedPages
          /\ ev.scannedPages <= ev.totalPages
          /\ ev.scannedPages = Cardinality(SettledPages(pages'))]_vars

\* two progress events of one scan, the second after a batch shorter than
\* the concurrency, with a page that ended in error
C22_Witness ==
  /\ Len(progress) = 2
  /\ progress[1].scannedPages = 2
  /\ progress[2].scannedPages = 3
  /\ \E k \in 1 .. Len(scanList) : pages[scanList[k]].status = "error"
\* the page operations (crawlPage, scanPage) that have not settled
InFlight == {i \in 1 .. Len(results) : results[i].state \in {"inflight", "new", "scanning"}}

\* C23: in the crawl phase and in the scan phase at most `concurrency` page
\* operations are in flight, and a batch is started only when no operation
\* of the batch before it is in flight.
C23_BatchBarrier ==
  /\ [](Cardinality(InFlight) <= cfg.concurrency)
  /\ [][(batch' # batch /\ batch' # <<>>) => InFlight = {}]_vars

\* a crawl batch and a scan batch with as many operations in flight as the
\* concurrency allows, after an earlier batch of the phase
C23_Witness ==
  /\ cfg.concurrency = 2
  /\ Cardinality(InFlight) = 2
  /\ \/ pc = "crawlBatch" /\ Len(discovered) > 0
     \/ pc = "scanBatch" /\ scanIdx > 0
\* C24: at no moment of a scan are the crawler's browser and the scanner's
\* browser both open: the crawler's is closed before the scanner's is
\* launched.
C24_OneBrowserAtATime == ~(crawlerBrowser /\ scannerBrowser)
\* the groups that Layer 3 made (candidate sets by content fingerprint)
Layer3Groups ==
  {k \in 1 .. Len(groups) : /\ groups[k].region = "duplicate-page"
                            /\ groups[k].fingerprint.kind = "main"}

\* the complete pages that have a main entry with digest d, or no main entry
\* and a body entry with digest d
PagesByMainElseBody(d) ==
  {p \in Range(CompletePages) :
     \/ pages[p].fp["main"] = d
     \/ pages[p].fp["main"] = NoFp /\ pages[p].fp["body"] = d}

\* C25: the pages of a Layer 3 group are exactly the complete pages whose
\* main digest is the group's digest, or that have no main entry and whose
\* body digest is the group's digest; a page with neither entry is in none.
C25_MainElseBody ==
  \A k \in Layer3Groups :
     LET d == groups[k].fingerprint.digest
     IN /\ d # NoFp
        /\ Range(groups[k].page_urls) = {pages[p].url : p \in PagesByMainElseBody(d)}

\* scenario C: a Layer 3 group made by the body digest of pages without a
\* main entry, while a page with a main entry and the same body digest is
\* left out of it
C25_Witness ==
  \E k \in Layer3Groups :
     /\ \A u \in Range(groups[k].page_urls) : pages[u].fp["main"] = NoFp
     /\ \E p \in Range(CompletePages) :
           /\ pages[p].fp["main"] # NoFp
           /\ pages[p].fp["body"] = groups[k].fingerprint.digest
           /\ pages[p].url \notin Range(groups[k].page_urls)
\* the complete pages whose URL is in the page list of no duplicate-page
\* group that Layer 3 made in this analysis
OutsideLayer3 ==
  {p \in Range(CompletePages) :
     \A k \in 1 .. Len(sc) :
        sc[k].region = "duplicate-page" => pages[p].url \notin Range(sc[k].page_urls)}

\* the (rule, selector) keys of the still-ungrouped issues of a page, each
\* with the number of times it occurs (the sorted list of keys)
OpenKeyList(p) ==
  LET open == OpenIssues({p})
  IN [key \in {IssueKey(issues[i]) : i \in open} |->
        Cardinality({i \in open : IssueKey(issues[i]) = key})]

\* the pages Layer 4 considers: outside Layer 3, titled, with an open issue
Layer4Pages ==
  {p \in OutsideLayer3 : pages[p].title # "" /\ OpenIssues({p}) # {}}

\* the groups that a step adds by issue signature
NewSignatureGroups ==
  {k \in Len(groups) + 1 .. Len(groups') :
     /\ groups'[k].region = "duplicate-page"
     /\ groups'[k].fingerprint.kind = "issue-sig"}

C27_ScansIsolated ==
  /\ [](/\ \A p \in 1 .. Len(pageRows) : pageRows[p].scan_id = pageRows[p].by
        /\ \A r \in issueRows : r.scan_id = r.by
        /\ \A e \in emitted : e.room = e.by)
  /\ [][\A s, t \in ScanIds :
          (s # t /\ runPc'[s] # runPc[s] /\ runPc[t] \in CrawlPcs)
            => /\ crawler'.visited = crawler.visited
               /\ crawler'.queue = crawler.queue]_vars

\* C28: a cancel request for a scan changes the status of no other scan and
\* leaves the cancel flag that another scan's running loop reads as it was;
\* a cancel request for a scan that is complete or failed changes no status.
C28_CancelOnlyTarget ==
  [][\A x \in ScanIds :
        cancelReqs' = Append(cancelReqs, x) =>
          /\ \A y \in ScanIds \ {x} :
                /\ scans'[y] = scans[y]
                /\ runPc[y] \in CrawlPcs => crawler'.isCancelled = crawler.isCancelled
                /\ runPc[y] \in ScanPcs => scanner'.isCancelled = scanner.isCancelled
          /\ scans[x] \in {"complete", "failed"} => scans' = scans]_vars
\* C29: the stored scanned_pages count of a scan is never above its stored
\* total_pages count, also when pages failed to load during the crawl.
C29_ScannedWithinTotal == scannedPagesCnt <= totalPagesCnt

\* the groups made by Layer 1 (a region digest) and Layer 2 (a repeated
\* selector)
Layer12Groups ==
  {k \in 1 .. Len(groups) : groups[k].region # "duplicate-page"}

\* C30: every group made by Layer 1 or Layer 2 spans two or more distinct
\* pages, whatever the number of complete pages of the scan.
C30_SharedMeansTwoPages ==
  \A k \in Layer12Groups :
     /\ groups[k].page_count >= 2
     /\ Cardinality(Range(groups[k].page_urls)) >= 2
====
